---- MODULE Spec2Model ----
(***************************************************************************)
(* A model of the kormir DLC oracle: the Oracle coordinator                *)
(* (kormir/src/lib.rs), the Schnorr-sign-with-nonce routine                *)
(* (kormir/src/utils.rs) and the three Storage back ends: MemoryStorage    *)
(* (kormir/src/storage.rs), PostgresStorage (kormir-server/src/models)     *)
(* and IndexedDb (kormir-wasm/src/storage.rs).                             *)
(*                                                                         *)
(* The back end is chosen in Init and never changes.  Tasks run the        *)
(* operations concurrently; every storage call is a suspension point and   *)
(* is a step of its own, the CPU-only work between two storage calls is     *)
(* folded into the step of the storage call before it.  A write to the    *)
(* database (Postgres, IndexedDb) may fail; its reads are taken to answer. *)
(***************************************************************************)
EXTENDS Integers, Sequences, FiniteSets, TLC

\* ------------------------------------------------------------------ bounds

\* number of concurrent tasks
NumTasks == 2
\* the nonce counter is not advanced beyond this value
MaxIndex == 2

Tasks == 1..NumTasks

\* the event names (event_id) callers announce
EventNames == {1, 2}

\* the identifiers callers pass to sign_enum_event and save_signatures
IdArgs == {1, 2}
Backends == {"memory", "postgres", "indexeddb"}

\* ---------------------------------------------------------- option values

None == <<>>
Some(x) == <<x>>
IsSome(o) == o # <<>>
Unwrap(o) == o[1]

\* --------------------------------------------------- a toy Schnorr group
\* Secret keys are the non-zero scalars modulo a prime group order; the
\* public point of k is k*G, written by its discrete logarithm k.  The
\* points k*G and (-k)*G share their x coordinate; the one whose scalar is
\* above the middle of the range stands for the odd-parity point.

GroupOrder == 31

Scalars == 1..(GroupOrder - 1)

\* SecretKey::negate
Negate(k) == (GroupOrder - k) % GroupOrder

\* parity returned by SecretKey::x_only_public_key
IsOddParity(k) == 2 * k > GroupOrder

\* the x-only public key of a secret key (the .0 of x_only_public_key)
XOnly(k) == IF IsOddParity(k) THEN Negate(k) ELSE k

\* a get_schnorr_key that keeps the secret of an odd-parity key as it is
get_schnorr_key_kept(key) == <<XOnly(key), key>>

\* utils::get_schnorr_key: <<x-only key, secret normalised to even parity>>
get_schnorr_key(key) ==
    IF IsOddParity(key)
    THEN LET nkey == Negate(key) IN <<XOnly(nkey), nkey>>
    ELSE <<XOnly(key), key>>

\* sha256 of SCHNORR_TAG_BYTES || rx || xonly || msg, as a number
ChallengeHash(rx, px, m) == (5 * rx + 7 * px + 11 * m + 3) % GroupOrder

Panic == [panic |-> TRUE]

\* utils::schnorr_sign_with_nonce.  Scalar::from_be_bytes(..).unwrap(),
\* mul_tweak(..).unwrap() and add_tweak(..).unwrap() panic when the value is
\* not a valid non-zero scalar.
schnorr_sign_with_nonce(msg, key, nonce_key) ==
    LET rk == get_schnorr_key(nonce_key)
        xk == get_schnorr_key(key)
        rx == rk[1]
        k == rk[2]
        xonly == xk[1]
        x == xk[2]
        e == ChallengeHash(rx, xonly, msg)
        challenge == (x * e) % GroupOrder
        sig == (k + challenge) % GroupOrder
    IN  IF e = 0 \/ challenge = 0 \/ sig = 0
        THEN Panic
        ELSE [rx |-> rx, s |-> sig]

\* Secp256k1::verify_schnorr: s*G = R + e*P for the even-parity points of
\* the x-only keys
verify_schnorr(sig, msg, px) ==
    LET e == ChallengeHash(sig.rx, px, msg)
    IN  sig.s % GroupOrder = (sig.rx + e * px) % GroupOrder

\* Message::from_hashed_data::<sha256::Hash>(outcome.as_bytes()).  The hash
\* of "c" is one for which the challenge of a signature made with the
\* oracle's key and the nonce of index 0 is zero.
OutcomeHash(o) == CASE o = "a" -> 2 [] o = "b" -> 3 [] o = "c" -> 28 [] OTHER -> 4

\* the oracle's signing key
signing_key == 20

\* Oracle::public_key
public_key == XOnly(signing_key)

\* the width of a nonce index: u32, scaled down to IndexBits bits
IndexBits == 6

\* the values of a nonce index
Indexes == 0..(2^IndexBits - 1)

\* ChildNumber::from_hardened_idx: Err(InvalidChildNumber) for an index with
\* its top bit set, the hardened child number otherwise
from_hardened_idx(index) ==
    IF index < 2^(IndexBits - 1) THEN Some(index + 2^(IndexBits - 1)) ELSE None

\* Oracle::get_nonce_key: the hardened child of nonce_xpriv at index; the
\* result of from_hardened_idx is unwrapped.  The derivation is a hash;
\* distinct indexes below MaxIndex give distinct x-only nonces.
get_nonce_key(index) ==
    IF from_hardened_idx(index) = None THEN Panic
    ELSE IF index % 2 = 0 THEN 3 + (index % 12)
    ELSE GroupOrder - (3 + (index % 12))

\* Secp256k1::sign_schnorr_no_aux_rand: BIP-340 with the nonce derived from
\* key and msg by a hash; the library never fails, it is given the first
\* nonce from the hash value on that yields a signature
sign_schnorr_no_aux_rand(msg, key) ==
    LET hashed == (key + 3 * msg) % GroupOrder
        usable == {k \in Scalars : schnorr_sign_with_nonce(msg, key, k) # Panic}
        nonce == CHOOSE k \in usable :
                    \A q \in usable :
                        (k - hashed) % GroupOrder <= (q - hashed) % GroupOrder
    IN  schnorr_sign_with_nonce(msg, key, nonce)


\* ------------------------------------------------------------------ state

VARIABLES
    backend,          \* which Storage implementation the oracle owns
    current_index,    \* the AtomicU32 nonce counter of the store
    lock,             \* MemoryStorage: the RwLock around data
    data,             \* MemoryStorage map / IndexedDb "oracle_data/<id>" entries
    idb_nonce_index,  \* IndexedDb: the value stored under NONCE_INDEX_KEY
    events,           \* Postgres: table events, by id
    event_nonces,     \* Postgres: table event_nonces, a set of rows
    pg_serial,        \* Postgres: the serial sequence of events.id
    tasks,            \* per task: the call it runs and its locals
    issued,           \* history: the index lists handed out, in fetch_add order
    attested,         \* history: the attestations sign_enum_event returned
    sent,             \* history: the Nostr events the relays accepted
    oracle_metadata,  \* Postgres: the row of table oracle_metadata, if any
    returned          \* the call that returned in the last step, if one did

vars == <<backend, current_index, lock, data, idb_nonce_index, events,
          event_nonces, pg_serial, tasks, issued, attested, sent,
          oracle_metadata, returned>>

store_vars == <<data, idb_nonce_index, events, event_nonces, pg_serial>>

\* ---------------------------------------------------------------- results

Ok(v) == [ok |-> TRUE, err |-> "", val |-> v]
Err(e) == [ok |-> FALSE, err |-> e, val |-> <<>>]

\* a failed .unwrap(): the task panics
Panicked == Err("Panic")

\* --------------------------------------------------------- nonce counter

\* a fetch_add whose addition is lost
FetchAddLost(c, num) == c

\* AtomicU32::fetch_add(num as u32): the new value of the counter.  The
\* counter is capped at MaxIndex, far from the wrap-around of its 32 bits.
FetchAdd(c, num) == c + num

\* a loop that pushes the index after the increment
IndexRangeShifted(start, num) == [i \in 1..num |-> start + i]

\* the loop of get_next_nonce_indexes: num indexes starting at the value
\* fetch_add returned
IndexRange(start, num) == [i \in 1..num |-> start + i - 1]

\* ------------------------------------------------------- announcements

\* sha256 of the encoded OracleEvent, as a number
EventHash(oe) ==
    (13 * oe.event_id + 3 * oe.oracle_nonces[1] + oe.event_maturity_epoch
        + Len(oe.event_descriptor.outcomes)) % GroupOrder

\* OracleEvent::validate of the dlc_messages crate for an enum descriptor:
\* one nonce is expected
ValidateEvent(oe) == Len(oe.oracle_nonces) = 1

\* a create_enum_event that signs the event_id in place of the hash of the
\* event and returns without ann.validate
BuildAnnouncementNotValidated(indexes, event_id, outcomes, maturity) ==
    Ok([oracle_event |->
            [oracle_nonces |-> [i \in 1..Len(indexes) |-> XOnly(get_nonce_key(indexes[i]))],
             event_id |-> event_id,
             event_maturity_epoch |-> maturity,
             event_descriptor |-> [enum |-> TRUE, outcomes |-> outcomes]],
        oracle_public_key |-> public_key,
        announcement_signature |->
            sign_schnorr_no_aux_rand(event_id % GroupOrder, signing_key)])

\* the body of create_enum_event between get_next_nonce_indexes and
\* save_announcement: Ok(announcement) or Internal
BuildAnnouncement(indexes, event_id, outcomes, maturity) ==
    LET oracle_nonces == [i \in 1..Len(indexes) |-> XOnly(get_nonce_key(indexes[i]))]
        oracle_event == [oracle_nonces |-> oracle_nonces,
                         event_id |-> event_id,
                         event_maturity_epoch |-> maturity,
                         event_descriptor |-> [enum |-> TRUE, outcomes |-> outcomes]]
        sig == sign_schnorr_no_aux_rand(EventHash(oracle_event), signing_key)
    IN  IF ~ValidateEvent(oracle_event) THEN Err("Internal")
        ELSE IF sig = Panic THEN Panicked
        ELSE IF ~verify_schnorr(sig, EventHash(oracle_event), public_key)
             THEN Err("Internal")
        ELSE Ok([oracle_event |-> oracle_event,
                 oracle_public_key |-> public_key,
                 announcement_signature |-> sig])

\* OracleEventData as save_announcement first stores it
NewEventData(announcement, indexes) ==
    [announcement |-> announcement,
     indexes |-> indexes,
     signatures |-> <<>>,
     announcement_event_id |-> None,
     attestation_event_id |-> None]


\* ------------------------------------------------- MemoryStorage / IndexedDb
\* Both keep whole OracleEventData values in a map: MemoryStorage under a
\* random u32 id, IndexedDb under "oracle_data/<event_id>".

\* HashMap::get(&id).cloned() / get_from_indexed_db(get_oracle_data_key(id))
MapGetEvent(d, id) == IF id \in DOMAIN d THEN Some(d[id]) ELSE None

\* HashMap::insert / store.put: adds the entry or replaces the one stored
\* under the same key
MapPut(d, id, event) ==
    [k \in (DOMAIN d) \cup {id} |-> IF k = id THEN event ELSE d[k]]

\* MemoryStorage::save_signatures with the write lock held
\* <<result, data afterwards>>
MemorySaveSignatures(d, id, sigs) ==
    IF id \notin DOMAIN d THEN <<Err("NotFound"), d>>
    ELSE IF d[id].signatures # <<>> THEN <<Err("EventAlreadySigned"), d>>
    ELSE LET event == [d[id] EXCEPT !.signatures = sigs]
         IN  <<Ok(event), MapPut(d, id, event)>>

\* IndexedDb::save_signatures after its get_event: the test of the event it
\* read; Ok carries the event it is about to put
IndexedDbCheckSignatures(read, sigs) ==
    IF read = None THEN Err("NotFound")
    ELSE IF Unwrap(read).signatures # <<>> THEN Err("EventAlreadySigned")
    ELSE Ok([Unwrap(read) EXCEPT !.signatures = sigs])

\* IndexedDb::add_announcement_event_id / add_attestation_event_id in their
\* one read-write transaction; js.into_serde() fails when the key is absent
IndexedDbAddEventId(d, id, field, nostr_event_id) ==
    IF id \notin DOMAIN d THEN <<Err("StorageFailure"), d>>
    ELSE IF field = "announcement"
         THEN <<Ok(<<>>), MapPut(d, id, [d[id] EXCEPT !.announcement_event_id = Some(nostr_event_id)])>>
         ELSE <<Ok(<<>>), MapPut(d, id, [d[id] EXCEPT !.attestation_event_id = Some(nostr_event_id)])>>

\* ------------------------------------------------------------ PostgresStorage
\* Table events: id -> row; table event_nonces: rows with primary key id.

\* the rows of event_nonces of one event (EventNonce::get_by_event_id)
NoncesOf(rows, event_id) == {r \in rows : r.event_id = event_id}

\* event_nonces.sort_by_key(|nonce| nonce.index), as a sequence
RECURSIVE SortByIndex(_)
SortByIndex(rows) ==
    IF rows = {} THEN <<>>
    ELSE LET least == CHOOSE r \in rows : \A q \in rows : r.index <= q.index
         IN  <<least>> \o SortByIndex(rows \ {least})

\* EventNonce::outcome_and_sig: the pair when both columns are set
outcome_and_sig(row) ==
    IF IsSome(row.outcome) /\ IsSome(row.signature)
    THEN Some(<<Unwrap(row.outcome), Unwrap(row.signature)>>)
    ELSE None

\* flat_map(|nonce| nonce.outcome_and_sig()).collect()
RECURSIVE FlatMapOutcomeAndSig(_)
FlatMapOutcomeAndSig(rowseq) ==
    IF rowseq = <<>> THEN <<>>
    ELSE outcome_and_sig(Head(rowseq)) \o FlatMapOutcomeAndSig(Tail(rowseq))

\* the index list PostgresStorage::get_event materialises from the sorted rows
PgGetEventIndexes(rowseq) == [i \in 1..Len(rowseq) |-> rowseq[i].index]

\* PostgresStorage::get_event
PgGetEvent(ev, rows, id) ==
    IF id \notin DOMAIN ev THEN None
    ELSE LET sorted == SortByIndex(NoncesOf(rows, id))
         IN  Some([announcement |-> [oracle_event |-> ev[id].oracle_event,
                                     oracle_public_key |-> public_key,
                                     announcement_signature |-> ev[id].announcement_signature],
                   indexes |-> PgGetEventIndexes(sorted),
                   signatures |-> FlatMapOutcomeAndSig(sorted),
                   announcement_event_id |-> ev[id].announcement_event_id,
                   attestation_event_id |-> ev[id].attestation_event_id])

\* the NewEventNonce rows of PostgresStorage::save_announcement
PgNewEventNonces(announcement, indexes, event_id) ==
    {[id |-> indexes[i],
      event_id |-> event_id,
      index |-> i - 1,
      nonce |-> announcement.oracle_event.oracle_nonces[i],
      outcome |-> None,
      signature |-> None] : i \in 1..Len(indexes)}

\* a save_announcement that inserts the nonce rows first and outside a
\* transaction: they stay when the insert of the event fails
PgSaveAnnouncementNoRollback(ev, rows, serial, announcement, indexes) ==
    IF \E e \in DOMAIN ev : ev[e].name = announcement.oracle_event.event_id
    THEN <<Err("StorageFailure"), ev,
           rows \cup PgNewEventNonces(announcement, indexes, serial)>>
    ELSE <<Ok(serial),
           [k \in (DOMAIN ev) \cup {serial} |->
              IF k = serial
              THEN [name |-> announcement.oracle_event.event_id,
                    oracle_event |-> announcement.oracle_event,
                    announcement_signature |-> announcement.announcement_signature,
                    is_enum |-> announcement.oracle_event.event_descriptor.enum,
                    announcement_event_id |-> None,
                    attestation_event_id |-> None]
              ELSE ev[k]],
           rows \cup PgNewEventNonces(announcement, indexes, serial)>>

\* the transaction of PostgresStorage::save_announcement: the inserts fail on
\* the unique index on events.name and on the primary key of event_nonces
\* <<result, events afterwards, event_nonces afterwards>>
PgSaveAnnouncement(ev, rows, serial, announcement, indexes) ==
    LET new_rows == PgNewEventNonces(announcement, indexes, serial)
    IN  IF \/ \E e \in DOMAIN ev : ev[e].name = announcement.oracle_event.event_id
           \/ \E r \in rows, n \in new_rows : r.id = n.id
        THEN <<Err("StorageFailure"), ev, rows>>
        ELSE <<Ok(serial),
               [k \in (DOMAIN ev) \cup {serial} |->
                  IF k = serial
                  THEN [name |-> announcement.oracle_event.event_id,
                        oracle_event |-> announcement.oracle_event,
                        announcement_signature |-> announcement.announcement_signature,
                        is_enum |-> announcement.oracle_event.event_descriptor.enum,
                        announcement_event_id |-> None,
                        attestation_event_id |-> None]
                  ELSE ev[k]],
               rows \cup new_rows>>

\* a transaction that hands the signatures to the nonce rows last to first
PgSaveSignaturesReversed(ev, rows, id, signatures) ==
    LET sorted == SortByIndex(NoncesOf(rows, id))
    IN  IF id \notin DOMAIN ev THEN <<Err("StorageFailure"), rows>>
        ELSE IF Len(sorted) # Len(signatures) THEN <<Err("StorageFailure"), rows>>
        ELSE LET updated ==
                     {[sorted[i] EXCEPT
                          !.outcome = Some(signatures[Len(sorted) + 1 - i][1]),
                          !.signature = Some(signatures[Len(sorted) + 1 - i][2])]
                       : i \in 1..Len(sorted)}
                 event == Unwrap(PgGetEvent(ev, rows, id))
             IN  <<Ok([event EXCEPT !.indexes = [i \in 1..Len(sorted) |-> sorted[i].id],
                                    !.signatures = signatures]),
                   (rows \ NoncesOf(rows, id)) \cup updated>>

\* the transaction of PostgresStorage::save_signatures; every error of the
\* closure is mapped to StorageFailure
\* <<result, event_nonces afterwards>>
PgSaveSignatures(ev, rows, id, signatures) ==
    LET sorted == SortByIndex(NoncesOf(rows, id))
    IN  IF id \notin DOMAIN ev THEN <<Err("StorageFailure"), rows>>
        ELSE IF Len(sorted) # Len(signatures) THEN <<Err("StorageFailure"), rows>>
        ELSE LET updated == {[sorted[i] EXCEPT !.outcome = Some(signatures[i][1]),
                                               !.signature = Some(signatures[i][2])]
                              : i \in 1..Len(sorted)}
                 event == Unwrap(PgGetEvent(ev, rows, id))
             IN  <<Ok([event EXCEPT !.indexes = [i \in 1..Len(sorted) |-> sorted[i].id],
                                    !.signatures = signatures]),
                   (rows \ NoncesOf(rows, id)) \cup updated>>

\* an update that leaves an identifier that is set as it is
PgAddEventIdOnce(ev, id, field, nostr_event_id) ==
    [k \in DOMAIN ev |->
        IF k # id THEN ev[k]
        ELSE IF field = "announcement"
             THEN IF ev[k].announcement_event_id # None THEN ev[k]
                  ELSE [ev[k] EXCEPT !.announcement_event_id = Some(nostr_event_id)]
             ELSE IF ev[k].attestation_event_id # None THEN ev[k]
                  ELSE [ev[k] EXCEPT !.attestation_event_id = Some(nostr_event_id)]]

\* diesel::update(events).filter(id.eq(id)).set(<column>.eq(Some(event_id)))
PgAddEventId(ev, id, field, nostr_event_id) ==
    [k \in DOMAIN ev |->
        IF k # id THEN ev[k]
        ELSE IF field = "announcement"
             THEN [ev[k] EXCEPT !.announcement_event_id = Some(nostr_event_id)]
             ELSE [ev[k] EXCEPT !.attestation_event_id = Some(nostr_event_id)]]

\* ------------------------------------------------------- the store as read

\* Storage::get_event of the back end in use, on the current state
GetEvent(id) ==
    IF backend = "postgres" THEN PgGetEvent(events, event_nonces, id)
    ELSE MapGetEvent(data, id)

\* the ids under which the store holds an event
StoredIds == IF backend = "postgres" THEN DOMAIN events ELSE DOMAIN data


\* ------------------------------------------------------------ sign_enum_event

\* Oracle::sign_enum_event from the derivation of the nonce key up to the
\* call of save_signatures: Ok(the list it will save), or the failure
SignOutcome(event, outcome) ==
    LET nonce_key == get_nonce_key(event.indexes[1])
        msg == OutcomeHash(outcome)
        sig == schnorr_sign_with_nonce(msg, signing_key, nonce_key)
    IN  IF sig = Panic THEN Panicked
        ELSE IF sig.rx # XOnly(nonce_key) THEN Panicked
        ELSE IF ~verify_schnorr(sig, msg, public_key) THEN Err("Internal")
        ELSE Ok(<<<<outcome, sig>>>>)

\* CheckOutcome without the test of the outcome
SignOutcomeNotChecked(event, outcome) == SignOutcome(event, outcome)

\* if !descriptor.outcomes.contains(&outcome): InvalidOutcome
CheckOutcome(event, outcome) ==
    IF \A i \in 1..Len(event.announcement.oracle_event.event_descriptor.outcomes) :
          event.announcement.oracle_event.event_descriptor.outcomes[i] # outcome
    THEN Err("InvalidOutcome")
    ELSE SignOutcome(event, outcome)

\* CheckShape without the test of the number of indexes
CheckShapeAnyLength(event, outcome) ==
    IF ~event.announcement.oracle_event.event_descriptor.enum THEN Err("Internal")
    ELSE CheckOutcome(event, outcome)

\* data.indexes.len() != 1 and the match on the event descriptor
CheckShape(event, outcome) ==
    IF Len(event.indexes) # 1 THEN Err("Internal")
    ELSE IF ~event.announcement.oracle_event.event_descriptor.enum THEN Err("Internal")
    ELSE CheckOutcome(event, outcome)

\* CheckUnsigned with the test of the outcome ahead of the test of the
\* signatures
CheckUnsignedAfterOutcome(event, outcome) ==
    IF CheckShape(event, outcome) = Err("InvalidOutcome") THEN Err("InvalidOutcome")
    ELSE IF event.signatures # <<>> THEN Err("EventAlreadySigned")
    ELSE CheckShape(event, outcome)

\* CheckUnsigned without the test of the signatures
SignedNotChecked(event, outcome) == CheckShape(event, outcome)

\* if !data.signatures.is_empty(): EventAlreadySigned
CheckUnsigned(event, outcome) ==
    IF event.signatures # <<>> THEN Err("EventAlreadySigned")
    ELSE CheckShape(event, outcome)

\* SignChecks with another error for an absent event
AbsentReadAsInternal(read, outcome) ==
    IF read = None THEN Err("Internal")
    ELSE CheckUnsigned(Unwrap(read), outcome)

\* Oracle::sign_enum_event from the event get_event returned up to the call
\* of save_signatures: the error it returns, or Ok(the list it will save)
SignChecks(read, outcome) ==
    IF read = None THEN Err("NotFound")
    ELSE CheckUnsigned(Unwrap(read), outcome)

\* an attestation that leaves the outcome out
AttestationWithoutOutcome(outcome, sig) ==
    [oracle_public_key |-> public_key, signatures |-> <<sig>>, outcomes |-> <<>>]

\* the OracleAttestation sign_enum_event returns
Attestation(outcome, sig) ==
    [oracle_public_key |-> public_key, signatures |-> <<sig>>, outcomes |-> <<outcome>>]

\* ------------------------------------------------------------------- tasks

Outcomes == {"a", "b", "c"}

\* the outcome lists callers announce
OutcomeLists == {<<"a", "b">>}

\* a signature of outcome o made with the nonce of index, as a caller of
\* save_signatures passes it
SigOf(o, index) ==
    <<o, schnorr_sign_with_nonce(OutcomeHash(o), signing_key, get_nonce_key(index))>>

\* the one-signature lists callers of save_signatures pass
DirectSigs == {<<SigOf("a", 0)>>, <<SigOf("b", 0)>>}

\* Nostr event ids
NostrIds == {"n1", "n2"}

\* the values rand::random::<u32>() takes
RandIds == {1, 2}

Maturity == 100

\* the announcement a caller of the Storage trait makes for nonce indexes it
\* was handed: an enum event, or a digit decomposition event (no outcomes)
DirectAnnouncement(indexes, event_id, outcomes, enum) ==
    LET oracle_event ==
            [oracle_nonces |-> [i \in 1..Len(indexes) |-> XOnly(get_nonce_key(indexes[i]))],
             event_id |-> event_id,
             event_maturity_epoch |-> Maturity,
             event_descriptor |-> [enum |-> enum,
                                   outcomes |-> IF enum THEN outcomes ELSE <<>>]]
    IN  [oracle_event |-> oracle_event,
         oracle_public_key |-> public_key,
         announcement_signature |->
             sign_schnorr_no_aux_rand(EventHash(oracle_event), signing_key)]

IdleTask ==
    [pc |-> "idle", op |-> "none", id |-> 0, name |-> 0, outcome |-> "",
     outcomes |-> <<>>, num |-> 0, indexes |-> <<>>, ann |-> None,
     sigs |-> <<>>, nonce |-> 0, read |-> None, enum |-> TRUE,
     maturity |-> Maturity, front |-> "none", hex |-> None, nostr |-> None,
     before |-> None]

NoCall ==
    [op |-> "none", id |-> 0, name |-> 0, outcome |-> "", num |-> 0,
     sigs |-> <<>>, outcomes |-> <<>>, maturity |-> Maturity, nostr |-> None,
     res |-> Err("")]

\* the record of a call that returns res
Call(rec, res) ==
    [op |-> rec.op, id |-> rec.id, name |-> rec.name, outcome |-> rec.outcome,
     num |-> rec.num, sigs |-> rec.sigs, outcomes |-> rec.outcomes,
     maturity |-> rec.maturity, nostr |-> rec.nostr, res |-> res]

\* task t goes on with rec
Continue(t, rec) ==
    /\ tasks' = [tasks EXCEPT ![t] = rec]
    /\ returned' = NoCall

\* hex::encode(x.encode()) / x.encode().to_hex() of an announcement or an
\* attestation
HexEncode(x) == <<"hex", x>>

\* the error a front end answers with: the route handlers of kormir-server
\* turn every Err of their _impl into 500, kormir-wasm converts the Error
\* into the JsError of the same name; a panic stays a panic
FrontError(res) ==
    IF res = Panicked THEN res
    ELSE IF backend = "postgres" THEN Err("500")
    ELSE res

\* the front end running rec answers its caller with res
Respond(t, rec, res) ==
    /\ tasks' = [tasks EXCEPT ![t] = IdleTask]
    /\ returned' = [Call(rec, res) EXCEPT !.op = rec.front]

\* the oracle call of a front end has returned res: `?` hands an Err to the
\* caller, on Ok the front end encodes the message and goes on to publish it
AfterOracleCall(t, rec, res) ==
    IF ~res.ok THEN Respond(t, rec, FrontError(res))
    ELSE IF rec.op = "create"
    THEN Continue(t, [rec EXCEPT !.pc = "nostr_event", !.id = res.val[1],
                                 !.hex = Some(HexEncode(res.val[2]))])
    ELSE Continue(t, [rec EXCEPT !.pc = "nostr_event",
                                 !.hex = Some(HexEncode(res.val))])

\* task t, running rec, returns res to its caller
Return(t, rec, res) ==
    IF rec.front # "none" THEN AfterOracleCall(t, rec, res)
    ELSE /\ tasks' = [tasks EXCEPT ![t] = IdleTask]
         /\ returned' = Call(rec, res)

LockFree == [w |-> 0, r |-> {}]

InitStore ==
    /\ backend \in Backends
    /\ current_index = 0
    /\ lock = LockFree
    /\ data = <<>>
    /\ idb_nonce_index = None
    /\ events = <<>>
    /\ event_nonces = {}
    /\ pg_serial = 1
    /\ issued = <<>>
    /\ attested = {}
    /\ sent = {}
    /\ oracle_metadata = IF backend = "postgres" THEN Some(public_key) ELSE None
    /\ returned = NoCall

\* ------------------------------------------------- get_next_nonce_indexes

\* get_next_nonce_indexes has returned Ok(rec.indexes) to the caller running
\* rec: a direct call returns them, create_enum_event builds its
\* announcement, a caller of the Storage trait makes one to save
AfterNonceIndexes(t, rec) ==
    IF rec.op = "next" THEN Return(t, rec, Ok(rec.indexes))
    ELSE IF rec.op = "announce"
    THEN Continue(t, [rec EXCEPT
             !.pc = "save_ann",
             !.ann = Some(DirectAnnouncement(rec.indexes, rec.name, rec.outcomes,
                                             rec.enum))])
    ELSE LET built == BuildAnnouncement(rec.indexes, rec.name, rec.outcomes,
                                        rec.maturity)
         IN  IF built.ok
             THEN Continue(t, [rec EXCEPT !.pc = "save_ann", !.ann = Some(built.val)])
             ELSE Return(t, rec, built)

\* the fetch_add and the loop of get_next_nonce_indexes(num); IndexedDb then
\* goes on to write the counter to the database
TakeIndexes(t, rec, num) ==
    /\ current_index + num <= MaxIndex
    /\ LET indexes == IndexRange(current_index, num)
           called == [rec EXCEPT !.num = num, !.indexes = indexes]
       IN  /\ current_index' = FetchAdd(current_index, num)
           /\ issued' = Append(issued, indexes)
           /\ IF backend = "indexeddb"
              THEN Continue(t, [called EXCEPT !.pc = "nonce_persist"])
              ELSE AfterNonceIndexes(t, called)
    /\ UNCHANGED <<backend, oracle_metadata, sent, lock, store_vars, attested>>

\* Storage::get_next_nonce_indexes(num) called directly
NextNonceIndexes(t) ==
    /\ tasks[t].pc = "idle"
    /\ \E num \in 1..2 :
          TakeIndexes(t, [IdleTask EXCEPT !.op = "next"], num)

\* Oracle::create_enum_event up to its first suspension point, for an
\* event name among names and an outcome list among lists
CreateEnumEventWith(t, names, lists) ==
    /\ tasks[t].pc = "idle"
    /\ \E name \in names, outcomes \in lists :
          TakeIndexes(t, [IdleTask EXCEPT !.op = "create", !.name = name,
                                          !.outcomes = outcomes], 1)

CreateEnumEventOf(t, names) == CreateEnumEventWith(t, names, OutcomeLists)

CreateEnumEvent(t) == CreateEnumEventOf(t, EventNames)

\* a caller of the Storage trait announcing an event of one or two nonces, an
\* enum event or a digit decomposition event: get_next_nonce_indexes(num),
\* then save_announcement with the indexes it got
SaveAnnouncementCall(t) ==
    /\ tasks[t].pc = "idle"
    /\ \E num \in 1..2, name \in EventNames, outcomes \in OutcomeLists,
          enum \in BOOLEAN :
          TakeIndexes(t, [IdleTask EXCEPT !.op = "announce", !.name = name,
                                          !.outcomes = outcomes, !.enum = enum], num)

\* writes of the counter that land in any order
PersistNonceIndexAnyOrder(t) ==
    LET rec == tasks[t] IN
    /\ rec.pc = "nonce_persist"
    /\ \E io_ok \in BOOLEAN :
          IF io_ok
          THEN /\ idb_nonce_index' = Some(rec.indexes[Len(rec.indexes)] + 1)
               /\ AfterNonceIndexes(t, rec)
          ELSE /\ idb_nonce_index' = idb_nonce_index
               /\ Return(t, rec, Err("StorageFailure"))
    /\ UNCHANGED <<backend, oracle_metadata, sent, current_index, lock, data, events, event_nonces,
                   pg_serial, issued, attested>>

\* IndexedDb::get_next_nonce_indexes: save_to_indexed_db(NONCE_INDEX_KEY, ..).
\* The read-write transaction is made in the step of the fetch_add, with no
\* suspension in between, and IndexedDB runs the read-write transactions on
\* one object store in the order they were made: the writes land in the
\* order of the fetch_adds.
PersistNonceIndex(t) ==
    LET rec == tasks[t] IN
    /\ rec.pc = "nonce_persist"
    /\ \A u \in DOMAIN tasks :
          tasks[u].pc = "nonce_persist" => tasks[u].indexes[1] >= rec.indexes[1]
    /\ \E io_ok \in BOOLEAN :
          IF io_ok
          THEN /\ idb_nonce_index' = Some(rec.indexes[Len(rec.indexes)] + 1)
               /\ AfterNonceIndexes(t, rec)
          ELSE /\ idb_nonce_index' = idb_nonce_index
               /\ Return(t, rec, Err("StorageFailure"))
    /\ UNCHANGED <<backend, oracle_metadata, sent, current_index, lock, data, events, event_nonces,
                   pg_serial, issued, attested>>

\* -------------------------------------------------------- save_announcement

\* what create_enum_event returns once save_announcement returned r
CreateResult(rec, r) ==
    IF r.ok /\ rec.op = "create" THEN Ok(<<r.val, Unwrap(rec.ann)>>) ELSE r

\* Storage::save_announcement as create_enum_event calls it.
\* MemoryStorage takes the write lock with try_write().unwrap(); Postgres
\* runs one transaction; IndexedDb puts the entry under the event's name.
SaveAnnouncement(t) ==
    LET rec == tasks[t] IN
    /\ rec.pc = "save_ann"
    /\ CASE backend = "memory" ->
              /\ IF lock = LockFree
                 THEN /\ lock' = [lock EXCEPT !.w = t]
                      /\ Continue(t, [rec EXCEPT !.pc = "save_ann_locked"])
                 ELSE /\ lock' = lock
                      /\ Return(t, rec, Panicked)
              /\ UNCHANGED store_vars
         [] backend = "postgres" ->
              /\ \E io_ok \in BOOLEAN :
                    IF io_ok
                    THEN LET r == PgSaveAnnouncement(events, event_nonces, pg_serial,
                                                     Unwrap(rec.ann), rec.indexes)
                         IN  /\ events' = r[2]
                             /\ event_nonces' = r[3]
                             /\ pg_serial' = pg_serial + 1
                             /\ Return(t, rec, CreateResult(rec, r[1]))
                    ELSE /\ UNCHANGED <<events, event_nonces, pg_serial>>
                         /\ Return(t, rec, Err("StorageFailure"))
              /\ UNCHANGED <<lock, data, idb_nonce_index>>
         [] backend = "indexeddb" ->
              /\ \E io_ok \in BOOLEAN :
                    IF io_ok
                    THEN /\ data' = MapPut(data, rec.name,
                                           NewEventData(Unwrap(rec.ann), rec.indexes))
                         /\ Return(t, rec, CreateResult(rec, Ok(rec.name)))
                    ELSE /\ data' = data
                         /\ Return(t, rec, Err("StorageFailure"))
              /\ UNCHANGED <<lock, idb_nonce_index, events, event_nonces, pg_serial>>
    /\ UNCHANGED <<backend, oracle_metadata, sent, current_index, issued, attested>>

\* MemoryStorage::save_announcement with the write lock held: the insert
\* under a random id, then the guard is dropped
SaveAnnouncementLocked(t) ==
    LET rec == tasks[t] IN
    /\ rec.pc = "save_ann_locked"
    /\ \E id \in RandIds :
          /\ data' = MapPut(data, id, NewEventData(Unwrap(rec.ann), rec.indexes))
          /\ Return(t, rec, CreateResult(rec, Ok(id)))
    /\ lock' = LockFree
    /\ UNCHANGED <<backend, oracle_metadata, sent, current_index, idb_nonce_index, events, event_nonces,
                   pg_serial, issued, attested>>

\* ----------------------------------------------------------- sign_enum_event

\* the get_event of sign_enum_event has returned read to the caller running
\* rec: the checks and the signing follow without suspension
AfterGetEvent(t, rec, read) ==
    LET checked == SignChecks(read, rec.outcome)
    IN  IF checked.ok
        THEN Continue(t, [rec EXCEPT
                 !.pc = "save_sigs", !.sigs = checked.val,
                 !.nonce = Unwrap(read).announcement.oracle_event.oracle_nonces[1]])
        ELSE Return(t, rec, checked)

\* Oracle::sign_enum_event up to its first suspension point, get_event.
\* MemoryStorage::get_event takes the read lock with try_read().unwrap().
SignEnumEvent(t) ==
    /\ tasks[t].pc = "idle"
    /\ \E id \in IdArgs, outcome \in Outcomes :
          LET rec == [IdleTask EXCEPT !.op = "sign", !.id = id, !.outcome = outcome]
          IN  IF backend = "memory"
              THEN IF lock.w = 0
                   THEN /\ lock' = [lock EXCEPT !.r = @ \cup {t}]
                        /\ Continue(t, [rec EXCEPT !.pc = "sign_read"])
                   ELSE /\ lock' = lock
                        /\ Return(t, rec, Panicked)
              ELSE /\ lock' = lock
                   /\ AfterGetEvent(t, rec, GetEvent(id))
    /\ UNCHANGED <<backend, oracle_metadata, sent, current_index, store_vars, issued, attested>>

\* MemoryStorage::get_event with the read lock held, for sign_enum_event
SignRead(t) ==
    /\ tasks[t].pc = "sign_read"
    /\ lock' = [lock EXCEPT !.r = @ \ {t}]
    /\ AfterGetEvent(t, tasks[t], MapGetEvent(data, tasks[t].id))
    /\ UNCHANGED <<backend, oracle_metadata, sent, current_index, store_vars, issued, attested>>

\* ---------------------------------------------------------- save_signatures

\* Storage::save_signatures(id, sigs) called directly, with a list among lists
SaveSignaturesCallOf(t, lists) ==
    /\ tasks[t].pc = "idle"
    /\ \E id \in IdArgs, sigs \in lists :
          Continue(t, [IdleTask EXCEPT !.op = "save", !.pc = "save_sigs",
                                       !.id = id, !.sigs = sigs])
    /\ UNCHANGED <<backend, oracle_metadata, sent, current_index, lock, store_vars, issued, attested>>

SaveSignaturesCall(t) == SaveSignaturesCallOf(t, DirectSigs)

\* the lists a caller of save_signatures can pass: none, one or two pairs
AnySigLists == DirectSigs \cup {<<>>, <<SigOf("a", 0), SigOf("b", 1)>>}

SaveAnySignaturesCall(t) == SaveSignaturesCallOf(t, AnySigLists)

\* the history of attestations with one more: a is added, or counted once
\* more when the same attestation of the same event was returned before
Attest(history, a) ==
    IF \E h \in history : [h EXCEPT !.times = 1] = a
    THEN {IF [h EXCEPT !.times = 1] = a THEN [h EXCEPT !.times = @ + 1] ELSE h :
            h \in history}
    ELSE history \cup {a}

\* save_signatures returns r to its caller: a direct caller gets r;
\* sign_enum_event propagates an error and otherwise returns the attestation
ReturnFromSave(t, r) ==
    LET rec == tasks[t] IN
    IF rec.op = "sign"
    THEN IF r.ok
         THEN /\ Return(t, rec, Ok(Attestation(rec.outcome, rec.sigs[1][2])))
              /\ attested' = Attest(attested, [id |-> rec.id, nonce |-> rec.nonce,
                                                outcome |-> rec.outcome,
                                                sig |-> rec.sigs[1][2], times |-> 1])
         ELSE /\ Return(t, rec, r)
              /\ attested' = attested
    ELSE /\ Return(t, rec, r)
         /\ attested' = attested

\* Storage::save_signatures up to its first suspension point.
\* MemoryStorage takes the write lock; Postgres runs its whole transaction;
\* IndexedDb reads the event in a transaction of its own.
SaveSignatures(t) ==
    LET rec == tasks[t] IN
    /\ rec.pc = "save_sigs"
    /\ CASE backend = "memory" ->
              /\ IF lock = LockFree
                 THEN /\ lock' = [lock EXCEPT !.w = t]
                      /\ Continue(t, [rec EXCEPT !.pc = "save_sigs_locked"])
                 ELSE /\ lock' = lock
                      /\ Return(t, rec, Panicked)
              /\ attested' = attested
              /\ UNCHANGED store_vars
         [] backend = "postgres" ->
              /\ \E io_ok \in BOOLEAN :
                    IF io_ok
                    THEN LET r == PgSaveSignatures(events, event_nonces, rec.id, rec.sigs)
                         IN  /\ event_nonces' = r[2]
                             /\ ReturnFromSave(t, r[1])
                    ELSE /\ event_nonces' = event_nonces
                         /\ ReturnFromSave(t, Err("StorageFailure"))
              /\ UNCHANGED <<lock, data, idb_nonce_index, events, pg_serial>>
         [] backend = "indexeddb" ->
              /\ LET checked == IndexedDbCheckSignatures(MapGetEvent(data, rec.id), rec.sigs)
                 IN  IF checked.ok
                     THEN /\ Continue(t, [rec EXCEPT !.pc = "save_sigs_put",
                                                     !.read = Some(checked.val)])
                          /\ attested' = attested
                     ELSE ReturnFromSave(t, checked)
              /\ UNCHANGED <<lock, store_vars>>
    /\ UNCHANGED <<backend, oracle_metadata, sent, current_index, issued>>

\* MemoryStorage::save_signatures with the write lock held
SaveSignaturesLocked(t) ==
    LET rec == tasks[t]
        r == MemorySaveSignatures(data, rec.id, rec.sigs)
    IN  /\ rec.pc = "save_sigs_locked"
        /\ data' = r[2]
        /\ lock' = LockFree
        /\ ReturnFromSave(t, r[1])
        /\ UNCHANGED <<backend, oracle_metadata, sent, current_index, idb_nonce_index, events,
                       event_nonces, pg_serial, issued>>

\* IndexedDb::save_signatures: save_to_indexed_db of the event it read, with
\* the signatures set
SaveSignaturesPut(t) ==
    LET rec == tasks[t] IN
    /\ rec.pc = "save_sigs_put"
    /\ \E io_ok \in BOOLEAN :
          IF io_ok
          THEN /\ data' = MapPut(data, rec.id, Unwrap(rec.read))
               /\ ReturnFromSave(t, Ok(Unwrap(rec.read)))
          ELSE /\ data' = data
               /\ ReturnFromSave(t, Err("StorageFailure"))
    /\ UNCHANGED <<backend, oracle_metadata, sent, current_index, lock, idb_nonce_index, events,
                   event_nonces, pg_serial, issued>>

\* ------------------------------------------------------- Nostr event ids

\* add_announcement_event_id / add_attestation_event_id of PostgresStorage
\* and IndexedDb (MemoryStorage has neither)
AddEventId(t, field) ==
    /\ tasks[t].pc = "idle"
    /\ backend # "memory"
    /\ \E id \in IdArgs, nostr_event_id \in NostrIds :
          LET rec == [IdleTask EXCEPT !.op = "add_" \o field, !.id = id,
                                      !.nostr = Some(nostr_event_id)] IN
          IF backend = "postgres"
          THEN /\ events' = PgAddEventId(events, id, field, nostr_event_id)
               /\ data' = data
               /\ Return(t, rec, Ok(<<>>))
          ELSE LET r == IndexedDbAddEventId(data, id, field, nostr_event_id)
               IN  /\ data' = r[2]
                   /\ events' = events
                   /\ Return(t, rec, r[1])
    /\ UNCHANGED <<backend, oracle_metadata, sent, current_index, lock, idb_nonce_index, event_nonces,
                   pg_serial, issued, attested>>

AddAnnouncementEventId(t) == AddEventId(t, "announcement")

AddAttestationEventId(t) == AddEventId(t, "attestation")

\* ------------------------------------------------------------ the front ends
\* kormir-server (routes over PostgresStorage) and kormir-wasm (Kormir over
\* IndexedDb) publish what the oracle made as Nostr events.

\* now() as the server reads it, and the maturities a request carries
Now == 50

Maturities == {10, Maturity}

\* the outcome lists a request carries
RouteOutcomeLists == OutcomeLists \cup {<<>>}

\* The requests a front end is sent.  The server's handler tests the outcome
\* list and the maturity, so it is sent every combination; kormir-wasm
\* passes its arguments on to the oracle as they are and is sent the
\* well-formed ones (SpecArgs has the others).
RequestOutcomeLists == IF backend = "postgres" THEN RouteOutcomeLists ELSE OutcomeLists

RequestMaturities == IF backend = "postgres" THEN Maturities ELSE {Maturity}

\* create_announcement_event (Kind 88) / create_attestation_event (Kind 89,
\* tagging the announcement's event); the id is the hash of the event
NostrEvent(kind, content, tag) ==
    [id |-> <<kind, content, tag>>, kind |-> kind, content |-> content, tag |-> tag]

\* an update that loses the event it was to mark
StoreAddEventIdDropping(id, field, nostr_event_id) ==
    <<Ok(<<>>), [k \in (DOMAIN events) \ {id} |-> events[k]],
                [k \in (DOMAIN data) \ {id} |-> data[k]]>>

\* Storage::add_announcement_event_id / add_attestation_event_id of the back
\* end in use: <<result, events afterwards, data afterwards>>
StoreAddEventId(id, field, nostr_event_id) ==
    IF backend = "postgres"
    THEN <<Ok(<<>>), PgAddEventId(events, id, field, nostr_event_id), data>>
    ELSE LET r == IndexedDbAddEventId(data, id, field, nostr_event_id)
         IN  <<r[1], events, r[2]>>

\* a handler that passes every request on to the oracle
PostCreateEnumUnchecked(t) ==
    /\ tasks[t].pc = "idle"
    /\ backend # "memory"
    /\ \E name \in EventNames, outcomes \in RequestOutcomeLists,
          maturity \in RequestMaturities :
          TakeIndexes(t, [IdleTask EXCEPT !.op = "create", !.front = "create_enum",
                                          !.name = name, !.outcomes = outcomes,
                                          !.maturity = maturity], 1)

\* POST /create-enum of kormir-server: the two tests of the handler, then
\* create_enum_event_impl up to the fetch_add of the oracle call.
\* Kormir::create_enum_event of kormir-wasm calls the oracle at once.
PostCreateEnumOf(t, names) ==
    /\ tasks[t].pc = "idle"
    /\ backend # "memory"
    /\ \E name \in names, outcomes \in RequestOutcomeLists,
          maturity \in RequestMaturities :
          LET rec == [IdleTask EXCEPT !.op = "create", !.front = "create_enum",
                                      !.name = name, !.outcomes = outcomes,
                                      !.maturity = maturity]
          IN  IF backend = "postgres" /\ (outcomes = <<>> \/ maturity < Now)
              THEN /\ Respond(t, rec, Err("400"))
                   /\ UNCHANGED <<backend, oracle_metadata, sent, current_index, lock, store_vars,
                                  issued, attested>>
              ELSE TakeIndexes(t, rec, 1)

PostCreateEnum(t) == PostCreateEnumOf(t, EventNames)

\* POST /sign-enum and Kormir::sign_enum_event up to the get_event of the
\* oracle call; before records the event as stored when the request came
PostSignEnumOf(t, ids, outcomes) ==
    /\ tasks[t].pc = "idle"
    /\ backend # "memory"
    /\ \E id \in ids, outcome \in outcomes :
          AfterGetEvent(t, [IdleTask EXCEPT !.op = "sign", !.front = "sign_enum",
                                            !.id = id, !.outcome = outcome,
                                            !.before = GetEvent(id)],
                        GetEvent(id))
    /\ UNCHANGED <<backend, oracle_metadata, sent, current_index, lock, store_vars, issued, attested>>

PostSignEnum(t) == PostSignEnumOf(t, IdArgs, Outcomes)

\* what the sign front end finds for the tag of its attestation event: the
\* server answers an absent event or announcement_event_id with an error,
\* kormir-wasm answers NotFound for the event and unwraps the id
AnnouncementEventId(read) ==
    IF read = None
    THEN IF backend = "postgres" THEN Err("500") ELSE Err("NotFound")
    ELSE IF Unwrap(read).announcement_event_id = None
    THEN IF backend = "postgres" THEN Err("500") ELSE Panicked
    ELSE Ok(Unwrap(Unwrap(read).announcement_event_id))

\* The front end after the oracle call: it builds the Nostr event, which can
\* fail, and writes the event's id to the store with add_announcement_event_id
\* / add_attestation_event_id; the sign front end reads the announcement's
\* event id first.  The event is not sent yet.
AttachNostrEventId(t) ==
    LET rec == tasks[t]
        tag == IF rec.op = "create" THEN Ok(None)
               ELSE AnnouncementEventId(GetEvent(rec.id))
    IN  /\ rec.pc = "nostr_event"
        /\ IF ~tag.ok
           THEN /\ Respond(t, rec, tag)
                /\ UNCHANGED <<events, data>>
           ELSE \E built \in BOOLEAN, io_ok \in BOOLEAN :
                   LET event == IF rec.op = "create"
                                THEN NostrEvent(88, Unwrap(rec.hex), tag.val)
                                ELSE NostrEvent(89, Unwrap(rec.hex), tag.val)
                       r == StoreAddEventId(rec.id,
                                IF rec.op = "create" THEN "announcement"
                                ELSE "attestation", event.id)
                   IN  IF ~built
                       THEN /\ Respond(t, rec, FrontError(Err("Nostr")))
                            /\ UNCHANGED <<events, data>>
                       ELSE IF ~io_ok
                       THEN /\ Respond(t, rec, FrontError(Err("StorageFailure")))
                            /\ UNCHANGED <<events, data>>
                       ELSE /\ events' = r[2]
                            /\ data' = r[3]
                            /\ IF r[1].ok
                               THEN Continue(t, [rec EXCEPT !.pc = "send_event",
                                                            !.nostr = Some(event)])
                               ELSE Respond(t, rec, FrontError(r[1]))
        /\ UNCHANGED <<backend, oracle_metadata, sent, current_index, lock, idb_nonce_index,
                       event_nonces, pg_serial, issued, attested>>

\* client.send_event(event): the relays take the event, or the sending fails
\* and `?` hands the error to the caller; on success the front end answers
\* with the hex of the announcement / attestation
SendEvent(t) ==
    LET rec == tasks[t] IN
    /\ rec.pc = "send_event"
    /\ \E accepted \in BOOLEAN :
          IF accepted
          THEN /\ sent' = sent \cup {Unwrap(rec.nostr)}
               /\ Respond(t, rec, Ok(Unwrap(rec.hex)))
          ELSE /\ sent' = sent
               /\ Respond(t, rec, FrontError(Err("Nostr")))
    /\ UNCHANGED <<backend, oracle_metadata, current_index, lock, store_vars, issued, attested>>

\* ------------------------------------------------------- a new store handle

\* EventNonce::get_next_id: one more than the largest event_nonces.id, 0 for
\* an empty table
get_next_id(rows) ==
    IF rows = {} THEN 0
    ELSE 1 + (CHOOSE m \in {r.id : r \in rows} : \A r \in rows : r.id <= m)

\* a handle that starts from 0 whatever the database holds
IndexedDbIndexFromZero(index) == 0

\* IndexedDb::new: index.unwrap_or(0) of the value read under NONCE_INDEX_KEY
IndexedDbIndex(index) == IF index = None THEN 0 ELSE Unwrap(index)

\* The handle is dropped once no call runs on it, and PostgresStorage::new /
\* IndexedDb::new make a handle on the data it left: the counter is read
\* back from the database.  MemoryStorage keeps nothing beyond its handle.
\* At most MaxIndex lists are handed out before the last reopening.
Reopen ==
    /\ backend # "memory"
    /\ \A t \in DOMAIN tasks : tasks[t].pc = "idle"
    /\ Len(issued) <= MaxIndex
    /\ current_index' = IF backend = "postgres" THEN get_next_id(event_nonces)
                        ELSE IndexedDbIndex(idb_nonce_index)
    /\ returned' = [NoCall EXCEPT !.op = "reopen"]
    /\ UNCHANGED <<backend, oracle_metadata, sent, lock, store_vars, tasks, issued, attested>>

\* ----------------------------------------------------------- specifications

\* One caller issuing the calls one after the other, in any order.
Init ==
    /\ InitStore
    /\ tasks = [t \in {1} |-> IdleTask]

Next ==
    \/ \E t \in DOMAIN tasks : NextNonceIndexes(t)
    \/ \E t \in DOMAIN tasks : CreateEnumEvent(t)
    \/ \E t \in DOMAIN tasks : PersistNonceIndex(t)
    \/ \E t \in DOMAIN tasks : SaveAnnouncement(t)
    \/ \E t \in DOMAIN tasks : SaveAnnouncementLocked(t)
    \/ \E t \in DOMAIN tasks : SignEnumEvent(t)
    \/ \E t \in DOMAIN tasks : SignRead(t)
    \/ \E t \in DOMAIN tasks : SaveSignaturesCall(t)
    \/ \E t \in DOMAIN tasks : SaveSignatures(t)
    \/ \E t \in DOMAIN tasks : SaveSignaturesLocked(t)
    \/ \E t \in DOMAIN tasks : SaveSignaturesPut(t)

Spec == Init /\ [][Next]_vars

\* Tasks allocating nonce indexes and creating events concurrently.
InitTasks ==
    /\ InitStore
    /\ tasks = [t \in Tasks |-> IdleTask]

NextAlloc ==
    \/ \E t \in DOMAIN tasks : NextNonceIndexes(t)
    \/ \E t \in DOMAIN tasks : CreateEnumEvent(t)
    \/ \E t \in DOMAIN tasks : PersistNonceIndex(t)
    \/ \E t \in DOMAIN tasks : SaveAnnouncement(t)
    \/ \E t \in DOMAIN tasks : SaveAnnouncementLocked(t)

SpecAlloc == InitTasks /\ [][NextAlloc]_vars

\* Tasks creating NumTasks events of distinct names concurrently, on a
\* fresh store: the k-th call to start announces the name k.
CreateNextEvent(t) ==
    /\ Len(issued) < NumTasks
    /\ CreateEnumEventOf(t, {Len(issued) + 1})

NextCreate ==
    \/ \E t \in DOMAIN tasks : CreateNextEvent(t)
    \/ \E t \in DOMAIN tasks : PersistNonceIndex(t)
    \/ \E t \in DOMAIN tasks : SaveAnnouncement(t)
    \/ \E t \in DOMAIN tasks : SaveAnnouncementLocked(t)

SpecCreate == InitTasks /\ [][NextCreate]_vars

\* Tasks creating and signing events of one name concurrently.
CreateFirstEvent(t) == CreateEnumEventOf(t, {1})

NextSign ==
    \/ \E t \in DOMAIN tasks : CreateFirstEvent(t)
    \/ \E t \in DOMAIN tasks : PersistNonceIndex(t)
    \/ \E t \in DOMAIN tasks : SaveAnnouncement(t)
    \/ \E t \in DOMAIN tasks : SaveAnnouncementLocked(t)
    \/ \E t \in DOMAIN tasks : SignEnumEvent(t)
    \/ \E t \in DOMAIN tasks : SignRead(t)
    \/ \E t \in DOMAIN tasks : SaveSignatures(t)
    \/ \E t \in DOMAIN tasks : SaveSignaturesLocked(t)
    \/ \E t \in DOMAIN tasks : SaveSignaturesPut(t)

SpecSign == InitTasks /\ [][NextSign]_vars

\* One caller allocating indexes and creating events, the handle being
\* dropped and reopened between calls.
NextReopen ==
    \/ \E t \in DOMAIN tasks : NextNonceIndexes(t)
    \/ \E t \in DOMAIN tasks : CreateEnumEvent(t)
    \/ \E t \in DOMAIN tasks : PersistNonceIndex(t)
    \/ \E t \in DOMAIN tasks : SaveAnnouncement(t)
    \/ \E t \in DOMAIN tasks : SaveAnnouncementLocked(t)
    \/ Reopen

SpecReopen == Init /\ [][NextReopen]_vars

\* One caller of the Storage trait and of sign_enum_event: it saves
\* announcements of one or two nonces, of enum events and of digit
\* decomposition events, and saves signature lists of any length.
NextStore ==
    \/ \E t \in DOMAIN tasks : SaveAnnouncementCall(t)
    \/ \E t \in DOMAIN tasks : PersistNonceIndex(t)
    \/ \E t \in DOMAIN tasks : SaveAnnouncement(t)
    \/ \E t \in DOMAIN tasks : SaveAnnouncementLocked(t)
    \/ \E t \in DOMAIN tasks : SignEnumEvent(t)
    \/ \E t \in DOMAIN tasks : SignRead(t)
    \/ \E t \in DOMAIN tasks : SaveAnySignaturesCall(t)
    \/ \E t \in DOMAIN tasks : SaveSignatures(t)
    \/ \E t \in DOMAIN tasks : SaveSignaturesLocked(t)
    \/ \E t \in DOMAIN tasks : SaveSignaturesPut(t)

SpecStore == Init /\ [][NextStore]_vars

\* Tasks updating one event concurrently on a store that has the two
\* add_*_event_id operations: the event is created once, then signatures are
\* saved and the ids of its Nostr events attached, in any interleaving.
InitUpdate ==
    /\ InitTasks
    /\ backend # "memory"

CreateOnlyEvent(t) ==
    /\ issued = <<>>
    /\ CreateFirstEvent(t)

NextUpdate ==
    \/ \E t \in DOMAIN tasks : CreateOnlyEvent(t)
    \/ \E t \in DOMAIN tasks : PersistNonceIndex(t)
    \/ \E t \in DOMAIN tasks : SaveAnnouncement(t)
    \/ \E t \in DOMAIN tasks : SaveSignaturesCall(t)
    \/ \E t \in DOMAIN tasks : SaveSignatures(t)
    \/ \E t \in DOMAIN tasks : SaveSignaturesPut(t)
    \/ \E t \in DOMAIN tasks : AddAnnouncementEventId(t)
    \/ \E t \in DOMAIN tasks : AddAttestationEventId(t)

SpecUpdate == InitUpdate /\ [][NextUpdate]_vars

\* One client of a front end, kormir-server over PostgresStorage or
\* kormir-wasm over IndexedDb, issuing requests one after the other.
InitRoutes ==
    /\ Init
    /\ backend # "memory"

NextRoutes ==
    \/ \E t \in DOMAIN tasks : PostCreateEnum(t)
    \/ \E t \in DOMAIN tasks : PostSignEnum(t)
    \/ \E t \in DOMAIN tasks : PersistNonceIndex(t)
    \/ \E t \in DOMAIN tasks : SaveAnnouncement(t)
    \/ \E t \in DOMAIN tasks : SaveSignatures(t)
    \/ \E t \in DOMAIN tasks : SaveSignaturesPut(t)
    \/ \E t \in DOMAIN tasks : AttachNostrEventId(t)
    \/ \E t \in DOMAIN tasks : SendEvent(t)

SpecRoutes == InitRoutes /\ [][NextRoutes]_vars

\* One caller of create_enum_event passing any String and any Vec<String>:
\* also the empty event_id, no outcome, and the same outcome twice.
EmptyEventId == 0

AnyEventNames == EventNames \cup {EmptyEventId}

AnyOutcomeLists == OutcomeLists \cup {<<>>, <<"a", "a">>}

CreateAnyEnumEvent(t) == CreateEnumEventWith(t, AnyEventNames, AnyOutcomeLists)

NextArgs ==
    \/ \E t \in DOMAIN tasks : CreateAnyEnumEvent(t)
    \/ \E t \in DOMAIN tasks : PersistNonceIndex(t)
    \/ \E t \in DOMAIN tasks : SaveAnnouncement(t)
    \/ \E t \in DOMAIN tasks : SaveAnnouncementLocked(t)

SpecArgs == Init /\ [][NextArgs]_vars

\* schnorr_sign_with_nonce on its own: the message hash, the signing key
\* and the nonce key are drawn from the whole group.
Messages == 0..(GroupOrder - 1)

InitSchnorr ==
    /\ InitStore
    /\ backend = "memory"
    /\ \E msg \in Messages, key \in Scalars, nonce_key \in Scalars :
          tasks = [t \in {1} |-> [pc |-> "schnorr_sign_with_nonce", msg |-> msg,
                                  key |-> key, nonce_key |-> nonce_key]]

\* the call schnorr_sign_with_nonce(secp, msg, key, nonce_key)
SchnorrSignWithNonce(t) ==
    LET rec == tasks[t]
        sig == schnorr_sign_with_nonce(rec.msg, rec.key, rec.nonce_key)
    IN  /\ rec.pc = "schnorr_sign_with_nonce"
        /\ tasks' = [tasks EXCEPT ![t] = IdleTask]
        /\ returned' = [op |-> "schnorr_sign_with_nonce", msg |-> rec.msg,
                        key |-> rec.key, nonce_key |-> rec.nonce_key,
                        res |-> IF sig = Panic THEN Panicked ELSE Ok(sig)]
        /\ UNCHANGED <<backend, oracle_metadata, sent, current_index, lock, store_vars, issued, attested>>

NextSchnorr == \E t \in DOMAIN tasks : SchnorrSignWithNonce(t)

SpecSchnorr == InitSchnorr /\ [][NextSchnorr]_vars

\* Clients of a front end sending their requests concurrently, all about
\* the event of one name and its first outcome.
PostCreateFirst(t) == PostCreateEnumOf(t, {1})

PostSignFirst(t) == PostSignEnumOf(t, {1}, {"a"})

NextClients ==
    \/ \E t \in DOMAIN tasks : PostCreateFirst(t)
    \/ \E t \in DOMAIN tasks : PostSignFirst(t)
    \/ \E t \in DOMAIN tasks : PersistNonceIndex(t)
    \/ \E t \in DOMAIN tasks : SaveAnnouncement(t)
    \/ \E t \in DOMAIN tasks : SaveSignatures(t)
    \/ \E t \in DOMAIN tasks : SaveSignaturesPut(t)
    \/ \E t \in DOMAIN tasks : AttachNostrEventId(t)
    \/ \E t \in DOMAIN tasks : SendEvent(t)

SpecClients == InitUpdate /\ [][NextClients]_vars

\* One caller of a store that has the two add_*_event_id operations: it
\* creates an event, saves signatures and attaches identifiers of Nostr
\* events in any order, also when the event carries one already.
NextIds ==
    \/ \E t \in DOMAIN tasks : CreateOnlyEvent(t)
    \/ \E t \in DOMAIN tasks : PersistNonceIndex(t)
    \/ \E t \in DOMAIN tasks : SaveAnnouncement(t)
    \/ \E t \in DOMAIN tasks : SaveSignaturesCall(t)
    \/ \E t \in DOMAIN tasks : SaveSignatures(t)
    \/ \E t \in DOMAIN tasks : SaveSignaturesPut(t)
    \/ \E t \in DOMAIN tasks : AddAnnouncementEventId(t)
    \/ \E t \in DOMAIN tasks : AddAttestationEventId(t)

SpecIds == InitRoutes /\ [][NextIds]_vars

\* One caller creating events that announce the outcome whose signature with
\* the first nonce has a zero challenge, and signing them.
CreateRareEvent(t) == CreateEnumEventWith(t, EventNames, {<<"a", "c">>})

NextRare ==
    \/ \E t \in DOMAIN tasks : CreateRareEvent(t)
    \/ \E t \in DOMAIN tasks : PersistNonceIndex(t)
    \/ \E t \in DOMAIN tasks : SaveAnnouncement(t)
    \/ \E t \in DOMAIN tasks : SaveAnnouncementLocked(t)
    \/ \E t \in DOMAIN tasks : SignEnumEvent(t)
    \/ \E t \in DOMAIN tasks : SignRead(t)
    \/ \E t \in DOMAIN tasks : SaveSignatures(t)
    \/ \E t \in DOMAIN tasks : SaveSignaturesLocked(t)
    \/ \E t \in DOMAIN tasks : SaveSignaturesPut(t)

SpecRare == Init /\ [][NextRare]_vars

\* get_nonce_key on its own: the index is drawn from all the values of its
\* type.
InitNonceKey ==
    /\ InitStore
    /\ backend = "memory"
    /\ \E index \in Indexes :
          tasks = [t \in {1} |-> [pc |-> "get_nonce_key", index |-> index]]

\* the call get_nonce_key(index): a key, or the panic of the unwrap
GetNonceKey(t) ==
    LET rec == tasks[t]
        nonce_key == get_nonce_key(rec.index)
    IN  /\ rec.pc = "get_nonce_key"
        /\ tasks' = [tasks EXCEPT ![t] = IdleTask]
        /\ returned' = [op |-> "get_nonce_key", index |-> rec.index,
                        res |-> IF from_hardened_idx(rec.index) = None
                                THEN Panicked ELSE Ok(nonce_key)]
        /\ UNCHANGED <<backend, oracle_metadata, sent, current_index, lock, store_vars, issued, attested>>

NextNonceKey == \E t \in DOMAIN tasks : GetNonceKey(t)

SpecNonceKey == InitNonceKey /\ [][NextNonceKey]_vars

\* ------------------------------------------------------- server startup

\* the values of KORMIR_KEY the server is started with: the oracle's key,
\* the key of the same x-only public key, and foreign keys
SigningKeys == {signing_key, Negate(signing_key), 5, 7, 9, 13}

\* a server process that is not running
ServerDown == [pc |-> "down", key |-> 0]

\* main returns the error e: the process exits
Bail(t, e) ==
    /\ tasks' = [tasks EXCEPT ![t] = ServerDown]
    /\ returned' = [op |-> "main", key |-> tasks[t].key, res |-> Err(e)]

\* OracleMetadata::upsert(conn, pubkey) on the table holding row: the single
\* row is written when there is none, kept when it holds pubkey, and the
\* single-row constraint refuses a second row
OracleMetadataUpsert(row, pubkey) ==
    IF row = None THEN <<Ok(<<>>), Some(pubkey)>>
    ELSE IF Unwrap(row) = pubkey THEN <<Ok(<<>>), row>>
    ELSE <<Err("constraint"), row>>

\* one server process at a time runs against a fresh database
InitStartup ==
    /\ backend = "postgres"
    /\ current_index = 0
    /\ lock = LockFree
    /\ data = <<>>
    /\ idb_nonce_index = None
    /\ events = <<>>
    /\ event_nonces = {}
    /\ pg_serial = 1
    /\ issued = <<>>
    /\ attested = {}
    /\ sent = {}
    /\ oracle_metadata = None
    /\ returned = NoCall
    /\ tasks = [t \in {1} |-> ServerDown]

\* main up to the signing key: the environment, the pool, the migrations
Main(t) ==
    /\ tasks[t].pc = "down"
    /\ \E key \in SigningKeys :
          Continue(t, [pc |-> "oracle_metadata_get", key |-> key])
    /\ UNCHANGED <<backend, oracle_metadata, sent, current_index, lock, store_vars,
                   issued, attested>>

\* a startup that goes on without comparing the recorded key
CheckOracleMetadataUnchecked(t) ==
    LET rec == tasks[t] IN
    /\ rec.pc = "oracle_metadata_get"
    /\ \E io_ok \in BOOLEAN :
          IF ~io_ok THEN Bail(t, "database")
          ELSE IF oracle_metadata = None
               THEN Continue(t, [rec EXCEPT !.pc = "oracle_metadata_upsert"])
               ELSE Continue(t, [rec EXCEPT !.pc = "from_signing_key"])
    /\ UNCHANGED <<backend, oracle_metadata, sent, current_index, lock, store_vars,
                   issued, attested>>

\* main: OracleMetadata::get(&mut conn)? and the match on its result
CheckOracleMetadata(t) ==
    LET rec == tasks[t]
        pubkey == XOnly(rec.key)
    IN
    /\ rec.pc = "oracle_metadata_get"
    /\ \E io_ok \in BOOLEAN :
          IF ~io_ok THEN Bail(t, "database")
          ELSE IF oracle_metadata = None
               THEN Continue(t, [rec EXCEPT !.pc = "oracle_metadata_upsert"])
               ELSE IF Unwrap(oracle_metadata) # pubkey
                    THEN Bail(t, "pubkey does not match")
                    ELSE Continue(t, [rec EXCEPT !.pc = "from_signing_key"])
    /\ UNCHANGED <<backend, oracle_metadata, sent, current_index, lock, store_vars,
                   issued, attested>>

\* main: OracleMetadata::upsert(&mut conn, pubkey)?
UpsertOracleMetadata(t) ==
    LET rec == tasks[t] IN
    /\ rec.pc = "oracle_metadata_upsert"
    /\ \E io_ok \in BOOLEAN :
          LET r == OracleMetadataUpsert(oracle_metadata, XOnly(rec.key)) IN
          IF io_ok /\ r[1].ok
          THEN /\ oracle_metadata' = r[2]
               /\ Continue(t, [rec EXCEPT !.pc = "from_signing_key"])
          ELSE /\ oracle_metadata' = oracle_metadata
               /\ Bail(t, "database")
    /\ UNCHANGED <<backend, sent, current_index, lock, store_vars, issued, attested>>

\* main from Oracle::from_signing_key(PostgresStorage::new(..)?, ..)? to the
\* router: the storage reads the counter, the client adds its relays
FromSigningKey(t) ==
    LET rec == tasks[t] IN
    /\ rec.pc = "from_signing_key"
    /\ \E io_ok \in BOOLEAN :
          IF io_ok THEN Continue(t, [rec EXCEPT !.pc = "serving"])
          ELSE Bail(t, "startup")
    /\ UNCHANGED <<backend, oracle_metadata, sent, current_index, lock, store_vars,
                   issued, attested>>

\* the route /pubkey: Oracle::public_key of the oracle the server built
GetPubkey(t) ==
    /\ tasks[t].pc = "serving"
    /\ tasks' = tasks
    /\ returned' = [op |-> "pubkey", key |-> tasks[t].key,
                    res |-> Ok(XOnly(tasks[t].key))]
    /\ UNCHANGED <<backend, oracle_metadata, sent, current_index, lock, store_vars,
                   issued, attested>>

\* main: the shutdown signal ends the server
Shutdown(t) ==
    /\ tasks[t].pc = "serving"
    /\ tasks' = [tasks EXCEPT ![t] = ServerDown]
    /\ returned' = [op |-> "main", key |-> tasks[t].key, res |-> Ok(<<>>)]
    /\ UNCHANGED <<backend, oracle_metadata, sent, current_index, lock, store_vars,
                   issued, attested>>

NextStartup ==
    \/ \E t \in DOMAIN tasks : Main(t)
    \/ \E t \in DOMAIN tasks : CheckOracleMetadata(t)
    \/ \E t \in DOMAIN tasks : UpsertOracleMetadata(t)
    \/ \E t \in DOMAIN tasks : FromSigningKey(t)
    \/ \E t \in DOMAIN tasks : GetPubkey(t)
    \/ \E t \in DOMAIN tasks : Shutdown(t)

SpecStartup == InitStartup /\ [][NextStartup]_vars

\* ------------------------------------------------------------- properties

\* the event get_event returns for a stored id
Stored(id) == Unwrap(GetEvent(id))

\* the ids of the stored events that carry signatures
SignedIds == {id \in StoredIds : Stored(id).signatures # <<>>}

\* the outcomes announced for the event stored under id
AnnouncedOutcomes(id) ==
    LET outcomes == Stored(id).announcement.oracle_event.event_descriptor.outcomes
    IN  {outcomes[i] : i \in 1..Len(outcomes)}

\* the calls that are running
Running == {t \in DOMAIN tasks : tasks[t].pc # "idle"}

\* C1: whatever the interleaving of the tasks that call
\* get_next_nonce_indexes, directly or through create_enum_event, no nonce
\* index is handed out twice: the lists handed out are pairwise disjoint.
NoIndexReturnedTwice ==
    \A i, j \in 1..Len(issued) :
        \A p \in 1..Len(issued[i]), q \in 1..Len(issued[j]) :
            issued[i][p] = issued[j][q] => (i = j /\ p = q)

\* two calls hold indexes at the same time
TwoCallsHoldIndexes ==
    /\ Len(issued) >= 2
    /\ \E t, u \in Running :
          t # u /\ tasks[t].indexes # <<>> /\ tasks[u].indexes # <<>>

\* C2: for every event, however the sign_enum_event calls on it interleave,
\* at most one call returns an attestation: the nonce of the event signs at
\* most one message.
NonceSignsOnce ==
    \A a, b \in attested :
        (a.id = b.id /\ a.nonce = b.nonce) => (a = b /\ a.times = 1)

\* C3: the attestation sign_enum_event returns for an event made by
\* create_enum_event starts with the nonce published in the announcement
\* of that event, on every back end.
AttestedWithAnnouncedNonce ==
    \A a \in attested : a.sig.rx = a.nonce

\* C4: a successful sign_enum_event leaves the event signed, and
\* sign_enum_event called on a signed event returns EventAlreadySigned and
\* leaves the store as it was, whatever the outcome.
SecondSignRefused ==
    [][/\ (returned'.op = "sign" /\ returned'.res.ok)
            => returned'.id \in SignedIds'
       /\ (returned'.op = "sign" /\ returned'.id \in SignedIds)
            => /\ returned'.res = Err("EventAlreadySigned")
               /\ UNCHANGED <<store_vars, current_index>>]_vars

\* a second sign_enum_event on an event signed by the first one is refused
SecondSignWasRefused ==
    /\ returned.op = "sign"
    /\ returned.res = Err("EventAlreadySigned")
    /\ \E a \in attested : a.id = returned.id /\ a.outcome # returned.outcome

\* C5: get_next_nonce_indexes(n) on a counter c hands out the list
\* c, c+1, .., c+n-1 and leaves the counter at c+n; every index of the list
\* is above every index handed out before; the caller gets that list.
CounterHandsOutNextRange ==
    [][/\ Len(issued') = Len(issued) + 1 =>
            LET new == issued'[Len(issued')] IN
            /\ \E t \in DOMAIN tasks :
                  \/ tasks'[t].num = Len(new) /\ tasks'[t].indexes = new
                  \/ /\ tasks[t].pc = "idle" /\ returned'.op = "next"
                     /\ returned'.num = Len(new) /\ returned'.res = Ok(new)
            /\ new = [i \in 1..Len(new) |-> current_index + i - 1]
            /\ current_index' = current_index + Len(new)
            /\ \A i \in 1..Len(issued) : \A p \in 1..Len(issued[i]) :
                  \A q \in 1..Len(new) : issued[i][p] < new[q]
       /\ (returned'.op = "next" /\ returned'.res.ok) =>
            /\ Len(returned'.res.val) = returned'.num
            /\ \E i \in 1..Len(issued') : issued'[i] = returned'.res.val]_vars

\* a call returned its indexes after an earlier call had taken some
SecondRangeReturned ==
    /\ returned.op = "next"
    /\ returned.res.ok
    /\ Len(issued) >= 2
    /\ returned.res.val = issued[Len(issued)]

\* the nonce indexes recorded for the stored events
RecordedIndexes ==
    IF backend = "postgres" THEN {r.id : r \in event_nonces}
    ELSE {data[id].indexes[1] : id \in DOMAIN data}

\* C6: NumTasks tasks creating events of distinct names on a fresh
\* MemoryStorage: every call succeeds, and once all have returned the
\* stored events hold the indexes 0..NumTasks-1, one each, and the counter
\* is NumTasks.
AllCreatesSucceed ==
    backend = "memory" =>
        /\ returned.op = "create" => returned.res.ok
        /\ (Len(issued) = NumTasks /\ Running = {}) =>
              /\ RecordedIndexes = 0..(NumTasks - 1)
              /\ Cardinality(StoredIds) = NumTasks
              /\ current_index = NumTasks

\* C7: an event that carries signatures is the same in the next state:
\* its announcement, its indexes and its signatures stay as they are.
SignedEventImmutable ==
    [][\A id \in SignedIds :
          /\ id \in StoredIds'
          /\ Stored(id)'.announcement = Stored(id).announcement
          /\ Stored(id)'.indexes = Stored(id).indexes
          /\ Stored(id)'.signatures = Stored(id).signatures]_vars

\* C8: save_signatures on an event that carries signatures returns
\* EventAlreadySigned and leaves the stored signatures as they are, on
\* every back end.
SaveOnSignedRefused ==
    [][\A id \in SignedIds :
          (returned'.op = "save" /\ returned'.id = id)
              => /\ returned'.res = Err("EventAlreadySigned")
                 /\ Stored(id)'.signatures = Stored(id).signatures]_vars

\* C9: sign_enum_event on a stored, unsigned event with an outcome that was
\* not announced returns InvalidOutcome and leaves the store as it was;
\* with an announced outcome it succeeds unless the write to the database
\* fails, so the event is still signable after the refusal.
InvalidOutcomeRefused ==
    [][(returned'.op = "sign" /\ returned'.id \in StoredIds \ SignedIds)
          => IF returned'.outcome \notin AnnouncedOutcomes(returned'.id)
             THEN /\ returned'.res = Err("InvalidOutcome")
                  /\ UNCHANGED <<store_vars, current_index>>
             ELSE \/ /\ returned'.res.ok
                     /\ returned'.id \in SignedIds'
                  \/ /\ returned'.res = Err("StorageFailure")
                     /\ backend # "memory"
                     /\ UNCHANGED <<store_vars, current_index>>]_vars

\* an outcome that was not announced was refused for an event that is stored
\* and unsigned
InvalidOutcomeWasRefused ==
    /\ returned.op = "sign"
    /\ returned.res = Err("InvalidOutcome")
    /\ returned.id \in StoredIds \ SignedIds

\* C10: sign_enum_event with an id under which the store holds no event
\* returns NotFound and changes nothing: no event, no signature, the same
\* counter.
UnknownIdNotFound ==
    [][(returned'.op = "sign" /\ returned'.id \notin StoredIds)
          => /\ returned'.res = Err("NotFound")
             /\ UNCHANGED <<store_vars, current_index>>]_vars

\* an unknown id was refused while the store holds another event
UnknownIdWasRefused ==
    /\ returned.op = "sign"
    /\ returned.res = Err("NotFound")
    /\ StoredIds # {}
    /\ returned.id \notin StoredIds

\* C11: when create_enum_event fails after its nonce index was allocated, the
\* store holds the events it held before and no other, the counter stays
\* above the consumed index, and the index stays handed out: the lists
\* handed out are kept and no later call gets one of their indexes.
FailedCreateConsumesIndex ==
    [][/\ \A t \in DOMAIN tasks :
            (/\ tasks[t].op = "create" /\ tasks[t].indexes # <<>>
             /\ tasks'[t].pc = "idle" /\ ~returned'.res.ok)
               => /\ UNCHANGED <<data, events, event_nonces>>
                  /\ current_index' = current_index
                  /\ tasks[t].indexes[1] < current_index'
                  /\ \E i \in 1..Len(issued') : issued'[i] = tasks[t].indexes
       /\ \A i \in 1..Len(issued) : issued'[i] = issued[i]
       /\ NoIndexReturnedTwice']_vars

\* a create_enum_event failed with its index consumed, and a later call holds
\* a later index
CreateFailedIndexConsumed ==
    /\ returned.op = "create"
    /\ returned.res = Err("StorageFailure")
    /\ current_index >= 2
    /\ \E t \in Running : tasks[t].indexes # <<>>

\* the indexes get_next_nonce_indexes has returned so far.  PostgresStorage
\* returns every list it takes; IndexedDb returns a list once the counter
\* above it is written, so what it returned lies below the stored counter.
ReturnedIndexes ==
    IF backend = "indexeddb" THEN 0..(IndexedDbIndex(idb_nonce_index) - 1)
    ELSE UNION {{issued[i][p] : p \in 1..Len(issued[i])} : i \in 1..Len(issued)}

\* C12: an index get_next_nonce_indexes returned is not handed out again,
\* by the same handle or by a handle reopened on the same data, whether or
\* not the call that consumed it stored an announcement.
NoIndexReturnedAfterReopen ==
    [][Len(issued') = Len(issued) + 1 =>
          \A q \in 1..Len(issued'[Len(issued')]) :
              issued'[Len(issued')][q] \notin ReturnedIndexes]_vars

\* the largest nonce index recorded for a stored event, and one more
NextStoredIndex ==
    IF RecordedIndexes = {} THEN 0
    ELSE 1 + (CHOOSE m \in RecordedIndexes : \A q \in RecordedIndexes : q <= m)

\* C13 as stated: the counter of a reopened handle is one more than the
\* largest nonce index of the stored events, 0 when there is none.
ReopenedCounterIsNextStored ==
    [][returned'.op = "reopen" => current_index' = NextStoredIndex]_vars

\* the indexes handed out so far
IssuedIndexes ==
    UNION {{issued[i][p] : p \in 1..Len(issued[i])} : i \in 1..Len(issued)}

\* C13, amended: the counter of a reopened handle is at least one more than
\* the largest nonce index of the stored events, and exactly that (0 when
\* nothing was handed out) when every index handed out is the index of a
\* stored event; IndexedDb reads back the counter it wrote, which also
\* counts the indexes of the calls that stored nothing.
ReopenedCounterAboveStored ==
    [][returned'.op = "reopen" =>
          /\ current_index' >= NextStoredIndex
          /\ IssuedIndexes = RecordedIndexes => current_index' = NextStoredIndex]_vars

\* a handle was reopened on a store that holds two events
ReopenedOnStoredEvents ==
    /\ returned.op = "reopen"
    /\ Cardinality(RecordedIndexes) = 2
    /\ IssuedIndexes = RecordedIndexes
    /\ current_index = 2

\* the ids of the stored events announced under the event_id name
StoredNamed(name) ==
    {id \in StoredIds : Stored(id).announcement.oracle_event.event_id = name}

\* C14: the stored events have pairwise different event_ids:
\* create_enum_event with an event_id that is stored fails and leaves the
\* stored events as they are, on every back end.
EventIdStoredOnce ==
    [][/\ \A name \in EventNames : Cardinality(StoredNamed(name))' <= 1
       /\ (returned'.op = "create" /\ StoredNamed(returned'.name) # {})
             => /\ ~returned'.res.ok
                /\ UNCHANGED <<data, events, event_nonces>>]_vars

\* C15: a successful sign_enum_event(id, outcome) returns an attestation
\* with the oracle's public key, the outcome as its only outcome and one
\* signature; get_event(id) then has exactly that outcome with that
\* signature as its signatures.
SignReturnsStoredSignature ==
    [][\A id \in IdArgs :
          (returned'.op = "sign" /\ returned'.res.ok /\ returned'.id = id)
             => /\ returned'.res.val.oracle_public_key = XOnly(signing_key)
                /\ returned'.res.val.outcomes = <<returned'.outcome>>
                /\ Len(returned'.res.val.signatures) = 1
                /\ id \in StoredIds'
                /\ Stored(id)'.signatures =
                      <<<<returned'.outcome, returned'.res.val.signatures[1]>>>>]_vars

\* sign_enum_event returned an attestation and the event is stored with it
SignedEventStored ==
    /\ returned.op = "sign"
    /\ returned.res.ok
    /\ returned.id \in SignedIds
    /\ Stored(returned.id).signatures[1][2] = returned.res.val.signatures[1]

\* C16: a successful create_enum_event(event_id, outcomes, maturity) returns
\* (id, ann) where ann has the event_id, the maturity and the outcomes it
\* was given and the one nonce of the index it took; get_event(id) then
\* returns that announcement, the list of that index and no signatures.
CreateReturnsStoredEvent ==
    [][\A t \in DOMAIN tasks :
          (/\ tasks[t].op = "create" /\ tasks'[t].pc = "idle"
           /\ returned'.op = "create" /\ returned'.res.ok)
             => /\ Len(tasks[t].indexes) = 1
                /\ returned'.res.val[2].oracle_event =
                      [oracle_nonces |-> <<XOnly(get_nonce_key(tasks[t].indexes[1]))>>,
                       event_id |-> tasks[t].name,
                       event_maturity_epoch |-> Maturity,
                       event_descriptor |-> [enum |-> TRUE,
                                             outcomes |-> tasks[t].outcomes]]
                /\ returned'.res.val[1] \in StoredIds'
                /\ \A id \in StoredIds' :
                      id = returned'.res.val[1]
                         => /\ Stored(id)'.announcement = returned'.res.val[2]
                            /\ Stored(id)'.indexes = tasks[t].indexes
                            /\ Stored(id)'.signatures = <<>>]_vars

\* C17: the announcement a successful create_enum_event returns validates:
\* it names the x-only key of the oracle's signing key, and its
\* announcement_signature (R, s) satisfies s*G = R + e*P for that key P and
\* the challenge e of the hash of its oracle_event; it is the signature
\* the deterministic signing gives for that hash and key.
ReturnedAnnouncementValidates ==
    (returned.op = "create" /\ returned.res.ok) =>
        LET ann == returned.res.val[2]
            sig == ann.announcement_signature
            msg == EventHash(ann.oracle_event)
            e == ChallengeHash(sig.rx, XOnly(signing_key), msg)
        IN  /\ ann.oracle_public_key = XOnly(signing_key)
            /\ sig.s \in Scalars
            /\ sig.s = (sig.rx + e * XOnly(signing_key)) % GroupOrder
            /\ sig = sign_schnorr_no_aux_rand(msg, signing_key)

\* create_enum_event returned the announcement of a second event
SecondAnnouncementReturned ==
    /\ returned.op = "create"
    /\ returned.res.ok
    /\ current_index >= 2
    /\ Cardinality(StoredIds) = 2

\* C18: for every signing key x, nonce key k and message,
\* schnorr_sign_with_nonce returns (R, s) with R the x-only key of k and
\* s = k' + x'*e mod n, k' and x' being k and x negated exactly when their
\* public key has odd parity and e the challenge of R, the x-only key of x
\* and the message; the signature verifies under the x-only key of x.  It
\* returns no signature exactly when e or s is not a non-zero scalar.
SchnorrSignatureOfNonce ==
    returned.op = "schnorr_sign_with_nonce" =>
        LET k == returned.nonce_key
            x == returned.key
            kn == IF 2 * k > GroupOrder THEN GroupOrder - k ELSE k
            xn == IF 2 * x > GroupOrder THEN GroupOrder - x ELSE x
            e == ChallengeHash(XOnly(k), XOnly(x), returned.msg)
            s == (kn + xn * e) % GroupOrder
        IN  IF e = 0 \/ s = 0
            THEN returned.res = Panicked
            ELSE /\ returned.res.ok
                 /\ returned.res.val.rx = XOnly(k)
                 /\ returned.res.val.s = s
                 /\ verify_schnorr(returned.res.val, returned.msg, XOnly(x))

\* a signature was returned for a nonce key and a signing key that both
\* have an odd-parity public key
OddParityKeysSigned ==
    /\ returned.op = "schnorr_sign_with_nonce"
    /\ returned.res.ok
    /\ IsOddParity(returned.nonce_key)
    /\ IsOddParity(returned.key)

\* an empty event_id, no outcome, or an outcome listed twice
Malformed(name, outcomes) ==
    \/ name = EmptyEventId
    \/ outcomes = <<>>
    \/ \E i, j \in 1..Len(outcomes) : i # j /\ outcomes[i] = outcomes[j]

\* C19: create_enum_event called with an empty event_id, with no outcome or
\* with an outcome listed twice returns an error and stores no event.
MalformedEventRejected ==
    [][\A t \in DOMAIN tasks :
          (/\ tasks[t].op = "create" /\ tasks'[t].pc = "idle"
           /\ returned'.op = "create"
           /\ Malformed(tasks[t].name, tasks[t].outcomes))
             => /\ ~returned'.res.ok
                /\ UNCHANGED <<data, events, event_nonces>>]_vars

\* C20: save_signatures with an id under which the store holds no event
\* returns NotFound and changes nothing, on every back end.
SaveOnUnknownIdNotFound ==
    [][(returned'.op = "save" /\ returned'.id \notin StoredIds)
          => /\ returned'.res = Err("NotFound")
             /\ UNCHANGED <<store_vars, current_index>>]_vars

\* the number of nonce indexes of the event stored under id
NonceCount(id) ==
    IF backend = "postgres" THEN Cardinality(NoncesOf(event_nonces, id))
    ELSE Len(data[id].indexes)

\* C21: save_signatures on a stored, unsigned event with a list whose length
\* is not the number of nonce indexes of the event returns Internal and
\* leaves the stored event as it is, on every back end.
WrongCountInternal ==
    [][\A id \in StoredIds \ SignedIds :
          (/\ returned'.op = "save" /\ returned'.id = id
           /\ Len(returned'.sigs) # NonceCount(id))
             => /\ returned'.res = Err("Internal")
                /\ Stored(id)' = Stored(id)]_vars

\* C22: sign_enum_event on a stored, unsigned event whose index list has not
\* exactly one index, or whose descriptor is not an enum descriptor, returns
\* Internal and stores no signature.
MisshapenEventInternal ==
    [][\A id \in StoredIds \ SignedIds :
          (/\ returned'.op = "sign" /\ returned'.id = id
           /\ \/ Len(Stored(id).indexes) # 1
              \/ ~Stored(id).announcement.oracle_event.event_descriptor.enum)
             => /\ returned'.res = Err("Internal")
                /\ UNCHANGED <<store_vars, current_index>>]_vars

\* sign_enum_event was refused for a stored event of two nonces
TwoNonceEventRefused ==
    /\ returned.op = "sign"
    /\ returned.res = Err("Internal")
    /\ returned.id \in StoredIds
    /\ Len(Stored(returned.id).indexes) = 2


\* ---- front ends

\* C23: when a front end answers create-enum or sign-enum with an error after
\* its oracle call succeeded (building the Nostr event, attaching its id or
\* sending it failed), the event is still stored afterwards, with the
\* announcement create_enum_event saved, respectively the signatures
\* sign_enum_event saved.
PublishFailureKeepsMutation ==
    [][\A t \in DOMAIN tasks, id \in IdArgs :
          (/\ tasks[t].pc \in {"nostr_event", "send_event"}
           /\ tasks[t].id = id
           /\ returned'.op = tasks[t].front
           /\ ~returned'.res.ok)
             => /\ id \in StoredIds'
                /\ tasks[t].op = "create"
                     => Stored(id)'.announcement = Unwrap(tasks[t].ann)
                /\ tasks[t].op = "sign"
                     => Stored(id)'.signatures = tasks[t].sigs]_vars

\* sign-enum was answered with an error although the event is signed and the
\* id of its attestation event is stored, and the relays hold no such event:
\* the sending failed after save_signatures
SignedButNotSent ==
    /\ returned.op = "sign_enum" /\ ~returned.res.ok
    /\ returned.id \in SignedIds
    /\ Stored(returned.id).attestation_event_id # None
    /\ \A e \in sent : Some(e.id) # Stored(returned.id).attestation_event_id

\* C24: a failure of the publisher does not abort the request: once the
\* oracle call succeeded and the id of the Nostr event is stored, only the
\* sending is left, and whether the relays take the event or not the front
\* end answers with success and the hex of the announcement / attestation.
PublisherFailureNotFatal ==
    [][\A t \in DOMAIN tasks :
          (/\ tasks[t].pc = "send_event"
           /\ returned'.op = tasks[t].front)
             => returned'.res = Ok(Unwrap(tasks[t].hex))]_vars

\* C25: in every reachable state, a stored event carries an
\* announcement_event_id only if the relays took the Nostr event of that id
\* before.
AnnouncementIdOnlyAfterSend ==
    \A id \in StoredIds :
       Stored(id).announcement_event_id # None
          => \E e \in sent : Some(e.id) = Stored(id).announcement_event_id

\* ---- concurrent updates of one event

\* C26: whatever the interleaving of save_signatures and add_*_event_id on
\* one event, no update is lost: what one of them has written into the
\* stored event (signatures, announcement_event_id, attestation_event_id) is
\* still there after every step of the other.
NoUpdateLost ==
    [][\A id \in StoredIds :
          /\ Stored(id).signatures # <<>> => Stored(id)'.signatures # <<>>
          /\ Stored(id).announcement_event_id # None
               => Stored(id)'.announcement_event_id # None
          /\ Stored(id).attestation_event_id # None
               => Stored(id)'.attestation_event_id # None]_vars

\* ---- nonce keys

\* C27: get_nonce_key is total on the index type: for every index the call
\* returns a key, a scalar of the group, and does not panic.
NonceKeyTotal ==
    returned.op = "get_nonce_key"
       => /\ returned.res.ok
          /\ returned.res.val \in Scalars

\* ---- degenerate scalars

\* C28: when sign_enum_event is called on a stored, unsigned enum event of
\* one nonce with an announced outcome, and signing with the event's nonce
\* meets a zero or out-of-range scalar, the call returns the Internal error
\* as a value and the store is left as it was.
DegenerateScalarInternal ==
    [][\A id \in StoredIds \ SignedIds :
          (/\ returned'.op = "sign" /\ returned'.id = id
           /\ Len(Stored(id).indexes) = 1
           /\ returned'.outcome \in AnnouncedOutcomes(id)
           /\ schnorr_sign_with_nonce(OutcomeHash(returned'.outcome), signing_key,
                                      get_nonce_key(Stored(id).indexes[1])) = Panic)
             => /\ returned'.res = Err("Internal")
                /\ UNCHANGED store_vars]_vars

\* ---- signatures read back

\* C29: when save_signatures(id, sigs) returns Ok, the event it returns
\* carries sigs, get_event(id) then returns the event with signatures equal
\* to sigs, element for element in the same order, and on PostgresStorage
\* the pair at each position is kept in the nonce row of that position.
SavedSignaturesReadBack ==
    [][\A id \in IdArgs :
          (/\ returned'.op = "save" /\ returned'.id = id
           /\ returned'.res.ok)
             => /\ returned'.res.val.signatures = returned'.sigs
                /\ id \in StoredIds'
                /\ Stored(id)'.signatures = returned'.sigs
                /\ backend = "postgres"
                     => \A r \in NoncesOf(event_nonces', id) :
                           /\ r.outcome = Some(returned'.sigs[r.index + 1][1])
                           /\ r.signature = Some(returned'.sigs[r.index + 1][2])]_vars

\* save_signatures has stored a list of two signatures for an event of two
\* nonces
TwoSignaturesSaved ==
    /\ returned.op = "save" /\ returned.res.ok
    /\ Len(returned.sigs) = 2
    /\ returned.id \in StoredIds
    /\ Len(Stored(returned.id).indexes) = 2
    /\ returned.sigs[1] # returned.sigs[2]

\* ---- requests refused

\* C30: POST /create-enum of kormir-server with no outcome, or with an
\* event_maturity_epoch earlier than the current time, is answered 400, and
\* the answer comes with the nonce counter, the index lists handed out and
\* the store as they were.
BadRequestRefused ==
    [][(/\ backend = "postgres"
        /\ returned'.op = "create_enum"
        /\ \/ returned'.outcomes = <<>>
           \/ returned'.maturity < Now)
          => /\ returned'.res = Err("400")
             /\ UNCHANGED <<current_index, issued, store_vars>>]_vars

\* a request with outcomes and a maturity in the past was answered 400 by a
\* server that had created an event before
PastMaturityRefused ==
    /\ backend = "postgres"
    /\ returned.op = "create_enum" /\ returned.res = Err("400")
    /\ returned.outcomes # <<>> /\ returned.maturity < Now
    /\ StoredIds # {}

\* ---- status codes

\* the status the error taxonomy assigns to an oracle error
StatusOf(err) ==
    CASE err \in {"InvalidArgument", "InvalidOutcome"} -> "400"
      [] err = "NotFound" -> "404"
      [] OTHER -> "500"

\* C31: when POST /sign-enum of kormir-server is answered at once because a
\* check of sign_enum_event failed, the status follows the kind of the error:
\* 400 for InvalidOutcome, 404 for NotFound, 500 for Internal and
\* StorageFailure (and for EventAlreadySigned).
SignEnumStatusByKind ==
    [][\A t \in DOMAIN tasks, id \in IdArgs, outcome \in Outcomes :
          (/\ backend = "postgres"
           /\ tasks[t].pc = "idle"
           /\ returned'.op = "sign_enum"
           /\ returned'.id = id /\ returned'.outcome = outcome
           /\ ~SignChecks(GetEvent(id), outcome).ok
           /\ SignChecks(GetEvent(id), outcome) # Panicked)
             => returned'.res = Err(StatusOf(SignChecks(GetEvent(id), outcome).err))]_vars

\* ---- identifiers of Nostr events

\* C32: add_announcement_event_id / add_attestation_event_id on a stored
\* event returns Ok whether or not the identifier is set already, the
\* identifier is the one passed afterwards, and the announcement, the nonce
\* indexes, the signatures and the other identifier are as they were.
AddEventIdOverwrites ==
    [][\A id \in StoredIds :
          (/\ returned'.op \in {"add_announcement", "add_attestation"}
           /\ returned'.id = id)
             => /\ returned'.res.ok
                /\ Stored(id)'.announcement = Stored(id).announcement
                /\ Stored(id)'.indexes = Stored(id).indexes
                /\ Stored(id)'.signatures = Stored(id).signatures
                /\ IF returned'.op = "add_announcement"
                   THEN /\ Stored(id)'.announcement_event_id = returned'.nostr
                        /\ Stored(id)'.attestation_event_id
                              = Stored(id).attestation_event_id
                   ELSE /\ Stored(id)'.attestation_event_id = returned'.nostr
                        /\ Stored(id)'.announcement_event_id
                              = Stored(id).announcement_event_id]_vars

\* the second identifier was written into a signed event that carries the
\* other identifier as well
SecondIdentifierAttached ==
    /\ returned.op = "add_announcement" /\ returned.res.ok
    /\ returned.nostr = Some("n2")
    /\ returned.id \in SignedIds
    /\ Stored(returned.id).announcement_event_id = Some("n2")
    /\ Stored(returned.id).attestation_event_id = Some("n1")

\* ---- nonce indexes of stored events

\* C33: on every back end, when save_announcement(announcement, indexes)
\* returns Ok(id), get_event(id).indexes is the list indexes it was passed,
\* and the event a successful save_signatures returns carries the indexes
\* the nonces of its announcement were derived from.
StoredIndexesAsSaved ==
    [][/\ \A t \in DOMAIN tasks :
             (/\ tasks[t].op = "announce"
              /\ tasks[t].pc \in {"save_ann", "save_ann_locked"}
              /\ returned'.op = "announce" /\ returned'.res.ok)
                => \A id \in StoredIds' :
                      id = returned'.res.val
                         => Stored(id)'.indexes = tasks[t].indexes
       /\ (returned'.op = "save" /\ returned'.res.ok)
             => /\ Len(returned'.res.val.indexes)
                     = Len(returned'.res.val.announcement.oracle_event.oracle_nonces)
                /\ \A i \in 1..Len(returned'.res.val.indexes) :
                      XOnly(get_nonce_key(returned'.res.val.indexes[i]))
                         = returned'.res.val.announcement.oracle_event.oracle_nonces[i]]_vars

\* ---- order of the checks

\* C34: sign_enum_event(id, outcome) returns NotFound when no event is
\* stored under id, whatever the outcome; otherwise EventAlreadySigned when
\* the event is signed, whatever the outcome and the shape of the event;
\* otherwise Internal when the event has not one nonce index or is no enum
\* event; otherwise InvalidOutcome when the outcome was not announced.
ChecksInFixedOrder ==
    [][\A id \in IdArgs :
          (returned'.op = "sign" /\ returned'.id = id)
             => IF id \notin StoredIds
                THEN returned'.res = Err("NotFound")
                ELSE IF id \in SignedIds
                THEN returned'.res = Err("EventAlreadySigned")
                ELSE IF \/ Len(Stored(id).indexes) # 1
                        \/ ~Stored(id).announcement.oracle_event.event_descriptor.enum
                THEN returned'.res = Err("Internal")
                ELSE returned'.outcome \notin AnnouncedOutcomes(id)
                        => returned'.res = Err("InvalidOutcome")]_vars

\* a signed event was to be signed with an outcome that was never announced,
\* and the call returned EventAlreadySigned
SignedEventWithUnknownOutcome ==
    /\ returned.op = "sign" /\ returned.res = Err("EventAlreadySigned")
    /\ returned.id \in SignedIds
    /\ returned.outcome \notin AnnouncedOutcomes(returned.id)

\* ---- published attestations

\* C35: in every state the front ends reach, a stored event that carries an
\* attestation_event_id is signed and carries an announcement_event_id.
AttestationIdOnSignedAnnounced ==
    \A id \in StoredIds :
       Stored(id).attestation_event_id # None
          => /\ Stored(id).signatures # <<>>
             /\ Stored(id).announcement_event_id # None

\* ---- requests that can be repeated

\* C36: whenever a front end answers sign-enum with an error, the stored
\* signatures of the event are those it had when the request came: an error
\* at once leaves the store as it was, and an error after the oracle call
\* (no announcement_event_id, building or sending the attestation event
\* failed) leaves the event with the signatures it had before.
FailedSignLeavesSignatures ==
    [][\A t \in DOMAIN tasks, id \in IdArgs :
          (/\ returned'.op = "sign_enum" /\ returned'.id = id
           /\ ~returned'.res.ok
           /\ tasks'[t].pc = "idle")
             => /\ tasks[t].pc = "idle" => UNCHANGED store_vars
                /\ (tasks[t].pc # "idle" /\ tasks[t].before # None)
                     => /\ id \in StoredIds'
                        /\ Stored(id)'.signatures
                              = Unwrap(tasks[t].before).signatures]_vars

\* ---- the persisted counter

\* the calls of get_next_nonce_indexes that have not written the counter yet
Persisting == {t \in DOMAIN tasks : tasks[t].pc = "nonce_persist"}

\* C37 as stated: on IndexedDb, once every get_next_nonce_indexes call has
\* completed, the persisted nonce_index equals the counter in memory.
PersistedCounterIsCounter ==
    (backend = "indexeddb" /\ Persisting = {})
       => IndexedDbIndex(idb_nonce_index) = current_index

\* C37, amended: on IndexedDb the persisted nonce_index never decreases; when
\* a get_next_nonce_indexes call has written it, it is greater than every
\* index of that call, and equal to the counter in memory if no other call
\* is still to write.  A call whose write fails returns StorageFailure, hands
\* out no index, and leaves the persisted value below the counter until the
\* next write.
PersistedCounterCoversReturned ==
    [][backend = "indexeddb" =>
          /\ IndexedDbIndex(idb_nonce_index') >= IndexedDbIndex(idb_nonce_index)
          /\ \A t \in Persisting :
                (/\ tasks'[t].pc # "nonce_persist"
                 /\ returned'.res # Err("StorageFailure"))
                   => /\ \A i \in 1..Len(tasks[t].indexes) :
                            tasks[t].indexes[i] < IndexedDbIndex(idb_nonce_index')
                      /\ (\A u \in DOMAIN tasks : tasks'[u].pc # "nonce_persist")
                            => IndexedDbIndex(idb_nonce_index') = current_index']_vars

\* two calls took their indexes before either wrote the counter, and both
\* have written it
TwoCallsPersisted ==
    /\ backend = "indexeddb"
    /\ Persisting = {}
    /\ Len(issued) = 2
    /\ idb_nonce_index = Some(current_index)
    /\ returned.op = "next" /\ returned.res.ok
    /\ returned.res.val = issued[2]

\* ---- the lock of MemoryStorage

\* C38: a call on a clone of a MemoryStorage that finds the lock of data
\* held by another call still returns a Result: it does not panic.
ContendedCallReturnsResult ==
    [][(/\ backend = "memory"
        /\ lock # LockFree
        /\ lock' = lock
        /\ returned' # returned)
          => returned'.res # Panicked]_vars

\* ---- the ids save_announcement returns

\* C39: a save_announcement that succeeds returns an id no stored event held,
\* and adds one entry to the store without replacing any: the store holds
\* one event more than before.
SaveAnnouncementAddsEntry ==
    [][\A t \in DOMAIN tasks, id \in IdArgs :
          (/\ tasks[t].pc \in {"save_ann", "save_ann_locked"}
           /\ tasks'[t].pc = "idle"
           /\ returned'.op = "create" /\ returned'.res.ok
           /\ returned'.res.val[1] = id)
             => /\ id \notin StoredIds
                /\ StoredIds' = StoredIds \cup {id}
                /\ \A other \in StoredIds : Stored(other)' = Stored(other)]_vars

\* ---- the recorded public key

\* C40: a server that serves requests holds a signing key whose public key
\* is the one recorded in oracle_metadata; a startup that finds another
\* public key recorded ends with an error before the oracle is built, and a
\* startup that finds none recorded goes on only once its own is recorded.
ServesOnlyRecordedKey ==
    [][\A t \in DOMAIN tasks :
          /\ tasks'[t].pc = "serving"
                => oracle_metadata' = Some(XOnly(tasks'[t].key))
          /\ (/\ tasks[t].pc = "oracle_metadata_get"
              /\ oracle_metadata # None
              /\ Unwrap(oracle_metadata) # XOnly(tasks[t].key))
                => /\ tasks'[t].pc = "down"
                   /\ returned'.op = "main" /\ ~returned'.res.ok
          /\ (/\ tasks[t].pc = "oracle_metadata_upsert"
              /\ tasks'[t].pc = "from_signing_key")
                => oracle_metadata' = Some(XOnly(tasks[t].key))]_vars

\* a first startup recorded the oracle's public key, and a later startup
\* with a foreign key was refused
ForeignKeyRefused ==
    /\ oracle_metadata = Some(public_key)
    /\ returned.op = "main"
    /\ returned.res = Err("pubkey does not match")
    /\ XOnly(returned.key) # public_key
    /\ tasks[1].pc = "down"

====
